---------------------------- MODULE Spec2Model ----------------------------
(*************************************************************************)
(* A model of the document pipeline of livre-mele-remeleur:              *)
(*   SvgProcessor.bundleResources / redact  (src/services/pdfGenerator.ts)*)
(*   PdfGenerator.generate                  (src/services/pdfGenerator.ts)*)
(*   App.downloadZip                        (src/unnamed/part_004)        *)
(*   getFilename / isFontFile               (src/utils/helpers.ts)        *)
(*                                                                       *)
(* Strings are sequences of tokens (<<"a", ".", "jpg">> is "a.jpg"), so   *)
(* that startsWith, split, replace and the regular expressions of the    *)
(* source are computed, not assumed.  A falsy string (undefined, null or *)
(* "") is the empty sequence: the source only ever tests truthiness.     *)
(*************************************************************************)
EXTENDS Integers, Sequences, FiniteSets, TLC

VARIABLES
    pc,                 \* which operation is running, and where it stands
    \* --- SvgProcessor.bundleResources ---
    svgInput,           \* the document handed to bundleResources
    doc,                \* the parsed document being rewritten
    preloadedAssets,    \* the asset pool: filename -> blob
    assets,             \* LocalAsset[]
    errors,             \* string[] (one record per message)
    urlToFilenameMap,   \* Map<string, string>
    fontReplacements,   \* the url(...) matches of every style element that has one
    totalItems,         \* the number of discovered units
    processedCount,     \* updateProgress's counter
    progressLog,        \* every value handed to onProgress, in order
    fetchLog,           \* every href handed to fetch, in order
    imgIdx,             \* index of the next image element
    itemIdx,            \* index of the next fontReplacements item
    matchIdx,           \* index of the next match inside that item
    css,                \* the local css of the item being processed
    \* --- SvgProcessor.redact ---
    redactInput,        \* the document handed to the first redact
    redactOutput,       \* what the latest redact returned
    redactRuns,         \* how many times redact has been applied
    \* --- App (the collection) and App.downloadZip ---
    files,              \* ProcessedSVG[]
    zip,                \* the archive: its entries in the order JSZip holds them
    \* --- PdfGenerator.generate ---
    pdfFiles,           \* the files handed to generate
    pdfI,               \* the loop index i (0-based, as in the source)
    pdfDoc,             \* the jsPDF document: its pages, Null while doc is null
    pdfLog,             \* what became of each file, in order
    saved,              \* what doc.save wrote, Null while nothing is saved
    \* --- App.bundleFile ---
    inflight,           \* the resolutions that have started and not yet completed
    nextId,             \* the next value generateId() returns
    \* --- Dropzone and the tabs of App ---
    dropping,           \* the drop being read: what it holds and the pool its callback sees
    isProcessing,       \* Dropzone's isProcessing, of the instance that is mounted
    activeTab,          \* App's activeTab
    \* --- TaggingEditor ---
    currentIndex,       \* the index of the page being edited (0-based)
    currentSvgContent,  \* the markup the editor last took from the current file
    dom,                \* the document the editor displays (svgContentRef)
    activeTags,         \* Set<string>, in insertion order
    availableTags,      \* App's palette of tags
    isDirty,            \* unsaved changes in the editor
    tagHist,            \* the latest edit: what was done, to what, from what
    tagOps              \* how many operations the editor has handled

bundleVars == <<svgInput, doc, preloadedAssets, assets, errors, urlToFilenameMap,
                fontReplacements, totalItems, processedCount, progressLog, fetchLog, imgIdx, itemIdx, matchIdx, css>>

-----------------------------------------------------------------------------
(* Strings as token sequences.  An operator that reads an argument more than  *)
(* once binds it first (v \in {s}), so that the argument is computed once.    *)

Null == <<>>

StartsWith(s, p) ==
    \E v \in {s}, q \in {p} :
        /\ Len(q) <= Len(v)
        /\ SubSeq(v, 1, Len(q)) = q

EndsWith(s, p) ==
    \E v \in {s}, q \in {p} :
        /\ Len(q) <= Len(v)
        /\ SubSeq(v, Len(v) - Len(q) + 1, Len(v)) = q

\* String.prototype.indexOf: the first position where p occurs in s, 0 when none
IndexOf(s, p) ==
    CHOOSE r \in
      { IF \E i \in 1..(Len(v) - Len(q) + 1) : SubSeq(v, i, i + Len(q) - 1) = q
        THEN CHOOSE i \in 1..(Len(v) - Len(q) + 1) :
                /\ SubSeq(v, i, i + Len(q) - 1) = q
                /\ \A j \in 1..(i - 1) : SubSeq(v, j, j + Len(q) - 1) # q
        ELSE 0 : v \in {s}, q \in {p} } : TRUE

Includes(s, p) == Len(p) = 0 \/ IndexOf(s, p) > 0

\* first and last position of a token of the set toks in s, 0 when none
FirstTok(s, toks) ==
    CHOOSE r \in
      { IF \E i \in 1..Len(v) : v[i] \in toks
        THEN CHOOSE i \in 1..Len(v) : v[i] \in toks /\ \A j \in 1..(i - 1) : v[j] \notin toks
        ELSE 0 : v \in {s} } : TRUE

LastTok(s, toks) ==
    CHOOSE r \in
      { IF \E i \in 1..Len(v) : v[i] \in toks
        THEN CHOOSE i \in 1..Len(v) :
                v[i] \in toks /\ \A j \in (i + 1)..Len(v) : v[j] \notin toks
        ELSE 0 : v \in {s} } : TRUE

\* s.substring(i) with 1-based i
From(s, i) == CHOOSE r \in {SubSeq(v, k, Len(v)) : v \in {s}, k \in {i}} : TRUE

\* String.prototype.replace(pattern: string, replacement): the FIRST occurrence only
ReplaceFirst(s, p, r) ==
    CHOOSE out \in
      { IF i = 0 THEN v ELSE SubSeq(v, 1, i - 1) \o r \o SubSeq(v, i + Len(q), Len(v)) :
          v \in {s}, q \in {p}, i \in {IndexOf(s, p)} } : TRUE

LowerTok(t) ==
    CASE t = "WOFF" -> "woff"
      [] t = "TTF"  -> "ttf"
      [] t = "JPG"  -> "jpg"
      [] t = "REDACT" -> "redact"
      [] t = "Redact" -> "redact"
      [] t = "#FFFFFF" -> "#ffffff"
      [] t = "White" -> "white"
      [] OTHER -> t

toLowerCase(s) == CHOOSE r \in {[i \in 1..Len(v) |-> LowerTok(v[i])] : v \in {s}} : TRUE

-----------------------------------------------------------------------------
(* src/utils/helpers.ts *)

FontExts == { <<"woff">>, <<"woff", "2">>, <<"ttf">>, <<"otf">>, <<"eot">> }

\* /\.(woff|woff2|ttf|otf|eot)$/i
isFontFile(name) ==
    \E lower \in {toLowerCase(name)} :
        \E e \in FontExts : EndsWith(lower, <<".">> \o e)

\* new URL(path) succeeds when path starts with a scheme: letters, then ":"
SchemeLetters == {"http", "s", "data", "blob"}

SchemeEnd(path) ==
    CHOOSE r \in
      { IF c > 1 /\ \A i \in 1..(c - 1) : v[i] \in SchemeLetters THEN c ELSE 0 :
          v \in {path}, c \in {FirstTok(path, {":"})} } : TRUE

IsUrl(path) == SchemeEnd(path) > 0

IsSpecialScheme(path) ==
    \E v \in {path}, c \in {SchemeEnd(path)} :
        c > 0 /\ SubSeq(v, 1, c - 1) \in { <<"http">>, <<"http", "s">> }

\* the URL parser percent-encodes a space of the path
PercentEncode(s) ==
    CHOOSE r \in {[i \in 1..Len(v) |-> IF v[i] = " " THEN "%20" ELSE v[i]] : v \in {s}} : TRUE

\* url.pathname: what follows the scheme and, for http(s), "//" host, up to the
\* first "?" or "#"
Pathname(path) ==
    CHOOSE r \in
      { LET after == IF special /\ StartsWith(rest, <<"/", "/">>)
                     THEN SubSeq(rest, 4, Len(rest)) ELSE rest
        IN  CHOOSE out \in
              { IF special /\ p = <<>> THEN <<"/">> ELSE PercentEncode(p) :
                  p \in { IF FirstTok(after, {"?", "#"}) = 0 THEN after
                          ELSE SubSeq(after, 1, FirstTok(after, {"?", "#"}) - 1) } } : TRUE :
          rest \in {From(path, SchemeEnd(path) + 1)},
          special \in {IsSpecialScheme(path)} } : TRUE

getFilename(path) ==
    CHOOSE r \in
      { IF IsUrl(v)
        THEN CHOOSE out \in
               {SubSeq(pathname, LastTok(pathname, {"/"}) + 1, Len(pathname)) :
                  pathname \in {Pathname(v)}} : TRUE
        ELSE CHOOSE out \in
               { IF first = <<>> THEN <<"unknown">> ELSE first :
                   first \in { CHOOSE f \in
                                 { IF FirstTok(popped, {"?"}) = 0 THEN popped
                                   ELSE SubSeq(popped, 1, FirstTok(popped, {"?"}) - 1) :
                                     popped \in {SubSeq(v, LastTok(v, {"/"}) + 1, Len(v))} } :
                                 TRUE } } : TRUE :
          v \in {path} } : TRUE


-----------------------------------------------------------------------------
(* SvgProcessor.bundleResources: discovery *)

Quotes == {"'", "\""}

\* href = img.getAttribute('href') || img.getAttribute('xlink:href')
ImageHref(img) == IF img.href # Null THEN img.href
                  ELSE IF img.hasXlink THEN img.xlink ELSE Null

\* one attempt of /url\s*\((?:'|")?([^'")]+)(?:'|")?\)/ at position p of css:
\* the position of the closing ")" and the captured url, or close = 0
MatchAt(text, p) ==
    LET start == IF p + 1 <= Len(text) /\ text[p + 1] \in Quotes THEN p + 2 ELSE p + 1
        stops == {i \in start..Len(text) : text[i] \in Quotes \cup {")"}}
        stop  == IF stops = {} THEN Len(text) + 1
                 ELSE CHOOSE i \in stops : \A j \in stops : i <= j
        close == IF stop <= Len(text) /\ text[stop] \in Quotes THEN stop + 1 ELSE stop
    IN  IF /\ text[p] = "url("
           /\ stop > start
           /\ close <= Len(text)
           /\ text[close] = ")"
        THEN [close |-> close, url |-> SubSeq(text, start, stop - 1),
              matchStr |-> SubSeq(text, p, close)]
        ELSE [close |-> 0, url |-> Null, matchStr |-> Null]

RECURSIVE MatchAllFrom(_, _)
\* [...css.matchAll(urlRegex)].map(m => ({ url: m[1], matchStr: m[0] }))
MatchAllFrom(text, p) ==
    IF p > Len(text) THEN <<>>
    ELSE LET m == MatchAt(text, p)
         IN  IF m.close = 0 THEN MatchAllFrom(text, p + 1)
             ELSE <<[url |-> m.url, matchStr |-> m.matchStr]>>
                  \o MatchAllFrom(text, m.close + 1)

MatchAll(text) == MatchAllFrom(text, 1)

RECURSIVE ScanStyles(_, _)
\* fontReplacements: one item per style element that has at least one match
ScanStyles(styles, k) ==
    IF k > Len(styles) THEN <<>>
    ELSE LET matches == MatchAll(styles[k])
         IN  (IF Len(matches) > 0 THEN <<[style |-> k, matches |-> matches]>> ELSE <<>>)
             \o ScanStyles(styles, k + 1)

RECURSIVE SumMatches(_, _)
SumMatches(items, k) ==
    IF k > Len(items) THEN 0 ELSE Len(items[k].matches) + SumMatches(items, k + 1)

\* totalItems = imageElements.length, += matches.length for every style
CountItems(d) == Len(d.images) + SumMatches(ScanStyles(d.styles, 1), 1)

\* Math.floor((processedCount / totalItems) * 100)
Percent(count, total) == (count * 100) \div total

updateProgressBeforeCount(log, count, total) ==
    IF total > 0 THEN Append(log, Percent(count, total)) ELSE log

\* updateProgress(): the values reported so far, after one more unit
updateProgress(log, count, total) ==
    IF total > 0 THEN Append(log, Percent(count + 1, total)) ELSE log

-----------------------------------------------------------------------------
(* SvgProcessor.bundleResources: processAsset *)

MapGet(m, k) == IF k \in DOMAIN m THEN m[k] ELSE Null

MapSet(m, k, v) == [x \in DOMAIN m \cup {k} |-> IF x = k THEN v ELSE m[x]]

\* targetFilename.split('.').pop() || 'bin'
FallbackExt(targetFilename) ==
    LET e == From(targetFilename, LastTok(targetFilename, {"."}) + 1)
    IN  IF e = <<>> THEN <<"bin">> ELSE e

\* the extension of a synthesized name
SynthExt(targetFilename, isFont, contentType) ==
    IF isFont /\ ~isFontFile(targetFilename)
    THEN IF Includes(contentType, <<"woff", "2">>) THEN <<"woff", "2">>
         ELSE IF Includes(contentType, <<"woff">>) THEN <<"woff">>
         ELSE IF Includes(contentType, <<"ttf">>) THEN <<"ttf">>
         ELSE FallbackExt(targetFilename)
    ELSE FallbackExt(targetFilename)

\* `asset_${hash}.${ext}`: localName is always undefined where the source tests
\* !localName, so a fetched asset always gets a synthesized name
SynthName(targetFilename, isFont, fx) ==
    <<"asset_", fx.hash, ".">> \o SynthExt(targetFilename, isFont, fx.contentType)

\* let localName = urlToFilenameMap.get(href): a reference resolved earlier in this
\* call keeps its name
KnownForgets(map, href) == Null

Known(map, href) == MapGet(map, href)

Skipped(href) ==
    \/ href = Null
    \/ StartsWith(href, <<"data", ":">>)
    \/ StartsWith(href, <<"#">>)

catchFetchSilent(errs, href, message) == errs

\* catch (e): errors.push(`Failed to load ${href}: ${e.message}`)
catchFetch(errs, href, message) == Append(errs, [href |-> href, message |-> message])

\* the state a call leaves behind and the value it returns; fx is what the
\* network answers if the call fetches
processAsset(href, isFont, fx, st) ==
    LET unchanged == [localName |-> Null, assets |-> st.assets, map |-> st.map,
                      errors |-> st.errors, fetched |-> <<>>]
        known     == Known(st.map, href)
        targetFilename == getFilename(href)
    IN  IF Skipped(href) THEN unchanged
        ELSE IF known # Null THEN [unchanged EXCEPT !.localName = known]
        ELSE IF targetFilename \in DOMAIN preloadedAssets
        THEN [localName |-> targetFilename,
              assets |-> Append(st.assets,
                           [originalUrl |-> href, localFileName |-> targetFilename,
                            blob |-> preloadedAssets[targetFilename]]),
              map |-> MapSet(st.map, href, targetFilename),
              errors |-> st.errors, fetched |-> <<>>]
        ELSE IF StartsWith(href, <<"http">>)
        THEN IF ~fx.ok
             THEN [unchanged EXCEPT
                     !.errors = catchFetch(st.errors, href, fx.failure),
                     !.fetched = <<href>>]
             ELSE LET localName == SynthName(targetFilename, isFont, fx)
                  IN  [localName |-> localName,
                       assets |-> Append(st.assets,
                                    [originalUrl |-> href, localFileName |-> localName,
                                     blob |-> [src |-> "fetch", of |-> href]]),
                       map |-> MapSet(st.map, href, localName),
                       errors |-> st.errors, fetched |-> <<href>>]
        ELSE unchanged


-----------------------------------------------------------------------------
(* The documents and pools bundleResources is called with *)

MaxImages == 2

UrlA    == <<"http", "s", ":", "/", "/", "ex.com", "/", "a", ".", "jpg">>
RelB    == <<"img", "/", "b", ".", "png">>
LocalA  == <<"images", "/", "a", ".", "jpg">>
DataRef == <<"data", ":", "image/png;base64,AAAA">>
FragRef == <<"#", "clip">>
HttpRel == <<"http", "docs", "/", "c", ".", "png">>

FontUrl   == <<"http", "s", ":", "/", "/", "ex.com", "/", "f", ".", "woff">>
FontQuery == <<"http", "s", ":", "/", "/", "ex.com", "/", "font", "?", "f=x", ".", "woff", "2">>
FontBare  == <<"f", ".", "woff">>
FontLocal == <<"fonts", "/", "f", ".", "woff">>
BgImage   == <<"bg", ".", "png">>

ImageRefs == {UrlA, RelB, LocalA, DataRef, FragRef, HttpRel}

\* an <image>: its href and xlink:href, its data-tags and its filter attribute
Image(href) == [href |-> href, hasXlink |-> FALSE, xlink |-> Null,
                tags |-> Null, filter |-> Null]

ImageElems == {Image(r) : r \in ImageRefs}
                \cup {[Image(Null) EXCEPT !.hasXlink = TRUE, !.xlink = UrlA], Image(Null)}

Url(ref) == <<"url(">> \o ref \o <<")">>

StyleLists ==
    { <<>>,
      << Url(FontUrl) >>,
      << Url(FontBare) \o <<";">> \o Url(FontBare) >>,
      << <<"url(", "'">> \o FontLocal \o <<"'", ")">> >>,
      << Url(FontQuery) \o Url(BgImage) >>,
      << Url(FontUrl) \o Url(DataRef), <<"text{}">>, Url(FontUrl) \o Url(FontLocal) >> }

SeqsUpTo(S, n) == UNION {[1..k -> S] : k \in 0..n}

\* a parsed document: its <image>, <style>, <defs>, <text> and <rect> elements in
\* document order, the root's width, height and viewBox attributes and its
\* style.backgroundColor; parserError when the markup does not parse
EmptyDoc == [images |-> <<>>, styles |-> <<>>, defs |-> <<>>, texts |-> <<>>,
             rects |-> <<>>, width |-> Null, height |-> Null, viewBox |-> Null,
             background |-> Null, parserError |-> FALSE]

BundleDocs ==
    {[EmptyDoc EXCEPT !.images = i, !.styles = s] :
        i \in SeqsUpTo(ImageElems, MaxImages), s \in StyleLists}
    \cup {[EmptyDoc EXCEPT !.parserError = TRUE]}

PoolBlob(name) == [src |-> "pool", of |-> name]

Pool(names) == [n \in names |-> PoolBlob(n)]

Pools == { Pool({}),
           Pool({<<"a", ".", "jpg">>, <<"b", ".", "png">>, <<"f", ".", "woff">>}) }

\* what the network answers: a failure (a rejected fetch, or a response that is
\* not ok), or a response with its content-type and the suffix Math.random gives
FetchOutcomes ==
    {[ok |-> FALSE, failure |-> "Failed to fetch", contentType |-> Null, hash |-> "h1"]}
    \cup {[ok |-> TRUE, failure |-> "", contentType |-> c, hash |-> h] :
        c \in {Null, <<"font", "/", "woff", "2">>, <<"font", "/", "ttf">>},
        h \in {"h1", "h2"}}

redactVars == <<redactInput, redactOutput, redactRuns>>
zipVars    == <<files, zip>>
pdfVars    == <<pdfFiles, pdfI, pdfDoc, pdfLog, saved>>

intakeVars == <<dropping, isProcessing, activeTab>>
appVars    == <<inflight, nextId, intakeVars>>
tagVars    == <<currentIndex, currentSvgContent, dom, activeTags, availableTags, isDirty,
                tagHist, tagOps>>

vars == <<pc, bundleVars, redactVars, zipVars, pdfVars, appVars, tagVars>>

BundleIdle ==
    /\ svgInput = EmptyDoc /\ doc = EmptyDoc
    /\ preloadedAssets = Pool({})
    /\ assets = <<>> /\ errors = <<>> /\ urlToFilenameMap = <<>>
    /\ fontReplacements = <<>> /\ totalItems = 0
    /\ processedCount = 0 /\ progressLog = <<>> /\ fetchLog = <<>>
    /\ imgIdx = 1 /\ itemIdx = 1 /\ matchIdx = 1 /\ css = Null

RedactIdle == redactInput = Null /\ redactOutput = Null /\ redactRuns = 0

ZipIdle == files = <<>> /\ zip = <<>>

PdfIdle == pdfFiles = <<>> /\ pdfI = 0 /\ pdfDoc = Null /\ pdfLog = <<>> /\ saved = Null

AppIdle == /\ inflight = {} /\ nextId = 1
           /\ dropping = <<>> /\ isProcessing = FALSE /\ activeTab = "upload"

\* useState(['redact-text', 'redact-image'])
DefaultTags == << <<"redact", "-text">>, <<"redact", "-image">> >>

TagIdle ==
    /\ currentIndex = 0 /\ currentSvgContent = Null /\ dom = Null
    /\ activeTags = <<>> /\ availableTags = DefaultTags
    /\ isDirty = FALSE /\ tagHist = <<>> /\ tagOps = 0

Init == pc = "idle" /\ BundleIdle /\ RedactIdle /\ ZipIdle /\ PdfIdle /\ AppIdle /\ TagIdle

-----------------------------------------------------------------------------
(* SvgProcessor.bundleResources: the call, one step per discovered unit *)

\* bundleResources(svgContent, preloadedAssets, onProgress): parse, or throw
CallBundleResources ==
    /\ pc = "idle"
    /\ \E d \in BundleDocs, pool \in Pools :
         /\ svgInput' = d
         /\ doc' = d
         /\ preloadedAssets' = pool
         /\ fontReplacements' = IF d.parserError THEN <<>> ELSE ScanStyles(d.styles, 1)
         /\ totalItems' = IF d.parserError THEN 0 ELSE CountItems(d)
         /\ pc' = IF d.parserError THEN "threw" ELSE "bundling"
    /\ UNCHANGED <<assets, errors, urlToFilenameMap, processedCount, progressLog,
                   fetchLog, imgIdx, itemIdx, matchIdx, css>>
    /\ UNCHANGED <<redactVars, zipVars, pdfVars, appVars, tagVars>>

ResolverState == [assets |-> assets, map |-> urlToFilenameMap, errors |-> errors]

\* the answers of the network that matter to one call of processAsset: all of
\* them when the call reaches fetch, a single one (never read) when it does not
OutcomesFor(href) ==
    IF /\ ~Skipped(href)
       /\ Known(urlToFilenameMap, href) = Null
       /\ getFilename(href) \notin DOMAIN preloadedAssets
       /\ StartsWith(href, <<"http">>)
    THEN FetchOutcomes
    ELSE {CHOOSE fx \in FetchOutcomes : ~fx.ok}

RewriteImageKeepsPath(img, localName) ==
    LET relativePath == <<"images", "/">> \o ImageHref(img)
    IN  [img EXCEPT !.href = relativePath,
                    !.xlink = IF img.hasXlink THEN relativePath ELSE img.xlink]

\* img.setAttribute('href', relativePath), and 'xlink:href' when the image has it
RewriteImage(img, localName) ==
    LET relativePath == <<"images", "/">> \o localName
    IN  [img EXCEPT !.href = relativePath,
                    !.xlink = IF img.hasXlink THEN relativePath ELSE img.xlink]

\* one iteration of `for (const img of imageElements)`
ProcessImage ==
    /\ pc = "bundling"
    /\ imgIdx <= Len(doc.images)
    /\ \E fx \in OutcomesFor(ImageHref(doc.images[imgIdx])) :
         LET img == doc.images[imgIdx]
             r   == processAsset(ImageHref(img), FALSE, fx, ResolverState)
         IN  /\ doc' = IF r.localName # Null
                       THEN [doc EXCEPT !.images[imgIdx] = RewriteImage(img, r.localName)]
                       ELSE doc
             /\ assets' = r.assets
             /\ urlToFilenameMap' = r.map
             /\ errors' = r.errors
             /\ fetchLog' = fetchLog \o r.fetched
    /\ processedCount' = processedCount + 1
    /\ progressLog' = updateProgress(progressLog, processedCount, totalItems)
    /\ imgIdx' = imgIdx + 1
    /\ UNCHANGED <<pc, svgInput, preloadedAssets, fontReplacements, totalItems,
                   itemIdx, matchIdx, css>>
    /\ UNCHANGED <<redactVars, zipVars, pdfVars, appVars, tagVars>>

\* css.replace(url, `fonts/${localName}`)
RewriteCss(text, url, localName) == ReplaceFirst(text, url, <<"fonts", "/">> \o localName)

\* one iteration of `for (const { url, matchStr } of item.matches)`; the first one
\* of an item reads style.textContent, the last one writes it back
ProcessFontMatch ==
    /\ pc = "bundling"
    /\ imgIdx > Len(doc.images)
    /\ itemIdx <= Len(fontReplacements)
    /\ \E fx \in OutcomesFor(IF isFontFile(fontReplacements[itemIdx].matches[matchIdx].url)
                           THEN fontReplacements[itemIdx].matches[matchIdx].url
                           ELSE Null) :
         LET item == fontReplacements[itemIdx]
             url  == item.matches[matchIdx].url
             css0 == IF matchIdx = 1 THEN doc.styles[item.style] ELSE css
             r    == IF isFontFile(url)
                     THEN processAsset(url, TRUE, fx, ResolverState)
                     ELSE processAsset(Null, TRUE, fx, ResolverState)
             css1 == IF r.localName # Null THEN RewriteCss(css0, url, r.localName) ELSE css0
             last == matchIdx = Len(item.matches)
         IN  /\ doc' = IF last THEN [doc EXCEPT !.styles[item.style] = css1] ELSE doc
             /\ css' = IF last THEN Null ELSE css1
             /\ itemIdx' = IF last THEN itemIdx + 1 ELSE itemIdx
             /\ matchIdx' = IF last THEN 1 ELSE matchIdx + 1
             /\ assets' = r.assets
             /\ urlToFilenameMap' = r.map
             /\ errors' = r.errors
             /\ fetchLog' = fetchLog \o r.fetched
    /\ processedCount' = processedCount + 1
    /\ progressLog' = updateProgress(progressLog, processedCount, totalItems)
    /\ UNCHANGED <<pc, svgInput, preloadedAssets, fontReplacements, totalItems, imgIdx>>
    /\ UNCHANGED <<redactVars, zipVars, pdfVars, appVars, tagVars>>

\* return { content, assets, errors }
ReturnBundle ==
    /\ pc = "bundling"
    /\ imgIdx > Len(doc.images)
    /\ itemIdx > Len(fontReplacements)
    /\ pc' = "bundled"
    /\ UNCHANGED <<bundleVars, redactVars, zipVars, pdfVars, appVars, tagVars>>

NextBundle == CallBundleResources \/ ProcessImage \/ ProcessFontMatch \/ ReturnBundle

SpecBundle == Init /\ [][NextBundle]_vars


-----------------------------------------------------------------------------
(* Claims about bundleResources *)

ImagesPath(name) == <<"images", "/">> \o name

\* the references of the input: of its images, and of its font url(...) matches
InputImageRefs == {ImageHref(svgInput.images[i]) : i \in 1..Len(svgInput.images)} \ {Null}

InputFontRefs ==
    UNION {{fontReplacements[k].matches[j].url : j \in 1..Len(fontReplacements[k].matches)} :
              k \in 1..Len(fontReplacements)}

AssetsOf(href) == {k \in 1..Len(assets) : assets[k].originalUrl = href}

FailedFetch(href) == \E k \in 1..Len(errors) : errors[k].href = href

ScenarioA ==
    /\ pc = "bundled"
    /\ svgInput.images = <<Image(UrlA)>>
    /\ svgInput.styles = <<>>
    /\ preloadedAssets = Pool({})
    /\ fetchLog = <<UrlA>>
    /\ errors = <<>>

\* C1: a page with the single image https://ex.com/a.jpg, an empty pool and a
\* successful fetch yields exactly one Asset and the image's reference becomes
\* images/a.jpg
C1_ScenarioA_NamedFromUrl ==
    ScenarioA =>
        /\ Len(assets) = 1
        /\ doc.images[1].href = ImagesPath(<<"a", ".", "jpg">>)

\* a reference that is neither data:, #fragment nor an absolute network address,
\* and whose derived filename is not in the pool
Unresolvable(href) ==
    /\ href # Null
    /\ ~StartsWith(href, <<"data", ":">>)
    /\ ~StartsWith(href, <<"#">>)
    /\ ~IsSpecialScheme(href)
    /\ getFilename(href) \notin DOMAIN preloadedAssets

\* C2: every reference that is neither data:, #fragment nor an absolute network
\* address, and whose filename is absent from the pool, is left unmodified AND
\* adds an entry naming it to the returned errors
C2_UnresolvedRelativeIsReported ==
    pc = "bundled" =>
        \A i \in 1..Len(svgInput.images) :
            Unresolvable(ImageHref(svgInput.images[i])) /\ ~StartsWith(ImageHref(svgInput.images[i]), <<"http">>) =>
                /\ doc.images[i] = svgInput.images[i]
                /\ FailedFetch(ImageHref(svgInput.images[i]))

\* the reference resolves: from the pool, or by a fetch that did not fail
Resolves(href) ==
    /\ ~Skipped(href)
    /\ \/ getFilename(href) \in DOMAIN preloadedAssets
       \/ StartsWith(href, <<"http">>) /\ ~FailedFetch(href)

\* C3: when N >= 1 images carry the same reference and it resolves, the call returns
\* exactly one Asset with that originalUrl and all N images read the same
\* images/<localName>
C3_DedupOneAssetPerReference ==
    pc = "bundled" =>
        \A h \in InputImageRefs :
            Resolves(h) =>
                /\ Cardinality(AssetsOf(h)) = 1
                /\ \A i \in 1..Len(svgInput.images) :
                     ImageHref(svgInput.images[i]) = h =>
                        \A k \in AssetsOf(h) :
                            doc.images[i].href = ImagesPath(assets[k].localFileName)

C3_Witness ==
    /\ pc = "bundled"
    /\ svgInput.images = <<Image(UrlA), Image(UrlA)>>
    /\ fetchLog = <<UrlA>>
    /\ Len(assets) = 1
    /\ doc.images[1].href = doc.images[2].href
    /\ doc.images[1].href # UrlA

IsLocalForm(href, folder) == Len(href) > 2 /\ StartsWith(href, <<folder, "/">>)
                             /\ "/" \notin {href[i] : i \in 3..Len(href)}

\* every reference of the input is already images/<name> or fonts/<name>
AllLocal ==
    /\ \A h \in InputImageRefs : IsLocalForm(h, "images")
    /\ \A h \in InputFontRefs : IsLocalForm(h, "fonts")
    /\ InputImageRefs \cup InputFontRefs # {}
    /\ \A i \in 1..Len(svgInput.images) : ~svgInput.images[i].hasXlink

\* C4 as stated: an already-local document comes back with the same references and
\* an empty assets list, whatever the pool holds
C4_IdempotentAnyPool ==
    (pc = "bundled" /\ AllLocal) => (doc = svgInput /\ assets = <<>>)

LocalRefsInPool ==
    {h \in InputImageRefs \cup {f \in InputFontRefs : isFontFile(f)} :
        getFilename(h) \in DOMAIN preloadedAssets}

\* C4 (amended): an already-local document comes back with the same references and
\* without any fetch; the assets list holds one Asset per distinct reference whose
\* filename is in the pool, so it is empty exactly when the pool has none of them
C4_IdempotentMarkup ==
    (pc = "bundled" /\ AllLocal) =>
        /\ doc = svgInput
        /\ fetchLog = <<>>
        /\ errors = <<>>
        /\ {assets[k].originalUrl : k \in 1..Len(assets)} = LocalRefsInPool
        /\ Len(assets) = Cardinality(LocalRefsInPool)

C4_Witness ==
    /\ pc = "bundled"
    /\ AllLocal
    /\ svgInput.images = <<Image(LocalA), Image(LocalA)>>
    /\ Len(svgInput.styles) = 1
    /\ InputFontRefs = {FontLocal}
    /\ Len(assets) = 2

RECURSIVE CountUrlTokens(_, _)
\* the url(...) occurrences of the stylesheet text, counted on the text itself
CountUrlTokens(styles, k) ==
    IF k > Len(styles) THEN 0
    ELSE Cardinality({i \in 1..Len(styles[k]) : styles[k][i] = "url("})
         + CountUrlTokens(styles, k + 1)

DiscoveredUnits == Len(svgInput.images) + CountUrlTokens(svgInput.styles, 1)

\* C5: onProgress is called once per discovered unit, after it, with
\* floor(processed / total * 100); the values never decrease, stay in 0..100 and
\* end at 100 when there is a unit
C5_ProgressPerUnit ==
    pc \in {"bundling", "bundled"} =>
        /\ totalItems = DiscoveredUnits
        /\ Len(progressLog) = processedCount
        /\ processedCount <= totalItems
        /\ \A k \in 1..Len(progressLog) :
             /\ progressLog[k] = (k * 100) \div totalItems
             /\ progressLog[k] \in 0..100
             /\ k > 1 => progressLog[k - 1] <= progressLog[k]
        /\ pc = "bundled" /\ totalItems > 0 =>
             /\ Len(progressLog) = totalItems
             /\ progressLog[Len(progressLog)] = 100

C5_Witness ==
    /\ pc = "bundled"
    /\ Len(svgInput.images) = 1
    /\ Len(fontReplacements) = 1
    /\ progressLog = <<33, 66, 100>>

\* the reference the step about to be taken hands to processAsset
CurrentRef ==
    IF imgIdx <= Len(doc.images) THEN ImageHref(doc.images[imgIdx])
    ELSE fontReplacements[itemIdx].matches[matchIdx].url

\* the step fetched and got no asset: the fetch failed
FetchFailedInStep ==
    /\ pc = "bundling"
    /\ Len(fetchLog') = Len(fetchLog) + 1
    /\ Len(assets') = Len(assets)

\* what a step of the call may do: after a failed fetch, add the one entry to
\* errors and go on; return only when every unit was processed
IsolatesFailure ==
    /\ FetchFailedInStep =>
          /\ errors' = Append(errors, [href |-> CurrentRef, message |-> "Failed to fetch"])
          /\ assets' = assets
          /\ urlToFilenameMap' = urlToFilenameMap
          /\ IF imgIdx <= Len(doc.images)
             THEN /\ doc' = doc
                  /\ doc.images[imgIdx] = svgInput.images[imgIdx]
                  /\ imgIdx' = imgIdx + 1
             ELSE LET item == fontReplacements[itemIdx]
                      last == matchIdx = Len(item.matches)
                      css0 == IF matchIdx = 1 THEN doc.styles[item.style] ELSE css
                  IN  /\ doc'.images = doc.images
                      /\ (IF last THEN doc'.styles[item.style] ELSE css') = css0
                      /\ Includes(css0, CurrentRef)
                      /\ <<itemIdx', matchIdx'>> =
                            (IF last THEN <<itemIdx + 1, 1>> ELSE <<itemIdx, matchIdx + 1>>)
          /\ processedCount' = processedCount + 1
          /\ pc' = "bundling"
    /\ (pc = "bundling" /\ pc' # "bundling") =>
          /\ pc' = "bundled"
          /\ processedCount = totalItems
          /\ <<doc', assets', errors'>> = <<doc, assets, errors>>
    /\ (pc = "bundling" /\ ~FetchFailedInStep) => errors' = errors

\* C20: a failed fetch adds one entry to errors, naming the reference, leaves the
\* reference as it was, and does not abort the call: the loop goes on to the next
\* unit, and the call returns only after every unit was processed
C20_FailedFetchDoesNotAbort == [][IsolatesFailure]_vars

\* the first of two images with the same address fails to load, the second loads,
\* and a font after them is still resolved
C20_Witness ==
    /\ pc = "bundled"
    /\ svgInput.images = <<Image(UrlA), Image(UrlA)>>
    /\ Len(errors) = 1
    /\ errors[1].href = UrlA
    /\ doc.images[1] = svgInput.images[1]
    /\ doc.images[2] # svgInput.images[2]
    /\ Len(fontReplacements) = 1
    /\ Len(assets) = 2

\* the url(...) occurrences of a style element of the returned document
OutputMatches(k) == MatchAll(doc.styles[k])

\* the j-th url(...) occurrence of item k was handed to processAsset and resolved
ResolvedFontMatch(k, j) ==
    \E url \in {fontReplacements[k].matches[j].url} :
        /\ isFontFile(url)
        /\ ~Skipped(url)
        /\ url \in DOMAIN urlToFilenameMap

\* C21: after bundleResources every url(...) occurrence of a stylesheet whose font
\* reference was resolved reads fonts/<localName>, once per occurrence: also when
\* the same font reference occurs several times in one stylesheet
C21_EveryFontOccurrenceRewritten ==
    pc = "bundled" =>
        \A k \in 1..Len(fontReplacements) :
            \E item \in {fontReplacements[k]} :
                \E out \in {OutputMatches(item.style)} :
                    /\ Len(out) = Len(item.matches)
                    /\ \A j \in 1..Len(item.matches) :
                         ResolvedFontMatch(k, j) =>
                            out[j].url = <<"fonts", "/">> \o urlToFilenameMap[item.matches[j].url]

\* the step about to be taken hands a reference to fetch
FetchInStep == pc = "bundling" /\ Len(fetchLog') = Len(fetchLog) + 1

\* a step fetches only an absolute network address that is neither data: nor a
\* fragment, was not resolved earlier in this call and whose filename the pool
\* does not hold; and it fetches the reference of the unit it processes
FetchIsJustified ==
    FetchInStep =>
        \E h \in {CurrentRef} :
            /\ fetchLog' = Append(fetchLog, h)
            /\ IsSpecialScheme(h)
            /\ ~StartsWith(h, <<"data", ":">>)
            /\ ~StartsWith(h, <<"#">>)
            /\ h \notin DOMAIN urlToFilenameMap
            /\ AssetsOf(h) = {}
            /\ getFilename(h) \notin DOMAIN preloadedAssets

\* C25: fetch is invoked only for a reference that is an absolute network address,
\* is not a data: or #fragment reference, was not resolved earlier in the same call
\* and whose derived filename is absent from the pool
C25_FetchOnlyAbsoluteUnresolved == [][FetchIsJustified]_vars


-----------------------------------------------------------------------------
(* SvgProcessor.redact *)

FILTER_ID == "redact-blur"

\* one UTF-16 code unit of the glyph U+25AE the source writes
MaskGlyph == "U+25AE"

\* what /\s/ matches, among the characters of the model
Whitespace == {" ", "\t", "\n"}

shouldRedactCaseSensitive(element) ==
    /\ element.tags # Null
    /\ Includes(element.tags, <<"redact">>)

\* tags && tags.toLowerCase().includes('redact')
shouldRedact(element) ==
    /\ element.tags # Null
    /\ Includes(toLowerCase(element.tags), <<"redact">>)

MaskCharAlways(c) == MaskGlyph

\* one replacement of text.replace(/[^\s]/g, glyph)
MaskChar(c) == IF c \in Whitespace THEN c ELSE MaskGlyph

mask(text) == [i \in 1..Len(text) |-> MaskChar(text[i])]

\* node.textContent && node.textContent.trim().length > 0
HasInk(text) == \E i \in 1..Len(text) : text[i] \notin Whitespace

redactTextNode(text) == IF HasInk(text) THEN mask(text) ELSE text

\* redactTextNodes(tspan): every text node under the tspan
redactTspan(tspan) ==
    [tspan EXCEPT !.nodes = [j \in 1..Len(tspan.nodes) |-> redactTextNode(tspan.nodes[j])]]

\* redactTextNodes(text): every text node under the text element, its tspans' too
redactText(el) ==
    [el EXCEPT !.children =
        [j \in 1..Len(el.children) |->
            IF el.children[j].kind = "tspan"
            THEN redactTspan(el.children[j])
            ELSE [el.children[j] EXCEPT !.text = redactTextNode(@)]]]

\* allTextContainers.forEach: the <text> elements first, then the <tspan> elements
redactContainers(texts) ==
    LET afterTexts == [k \in 1..Len(texts) |->
                          IF shouldRedact(texts[k]) THEN redactText(texts[k]) ELSE texts[k]]
    IN  [k \in 1..Len(texts) |->
            [afterTexts[k] EXCEPT !.children =
                [j \in 1..Len(afterTexts[k].children) |->
                    IF /\ afterTexts[k].children[j].kind = "tspan"
                       /\ shouldRedact(afterTexts[k].children[j])
                    THEN redactTspan(afterTexts[k].children[j])
                    ELSE afterTexts[k].children[j]]]]

\* doc.getElementById(FILTER_ID)
HasFilter(defs) == \E k \in 1..Len(defs) : \E j \in 1..Len(defs[k]) : defs[k][j] = FILTER_ID

ensureFilterAlways(defs) ==
    LET withDefs == IF Len(defs) = 0 THEN << <<>> >> ELSE defs
    IN  [withDefs EXCEPT ![1] = Append(@, FILTER_ID)]

\* the <defs> elements after step 1, when some image is a target
ensureFilter(defs) ==
    LET withDefs == IF Len(defs) = 0 THEN << <<>> >> ELSE defs
    IN  IF HasFilter(withDefs) THEN withDefs
        ELSE [withDefs EXCEPT ![1] = Append(@, FILTER_ID)]

FilterUrl == <<"url(", "#", FILTER_ID, ")">>

redact(d) ==
    LET imagesToRedact == {i \in 1..Len(d.images) : shouldRedact(d.images[i])}
    IN  [d EXCEPT
           !.defs   = IF imagesToRedact # {} THEN ensureFilter(d.defs) ELSE d.defs,
           !.images = [i \in 1..Len(d.images) |->
                          IF i \in imagesToRedact
                          THEN [d.images[i] EXCEPT !.filter = FilterUrl]
                          ELSE d.images[i]],
           !.texts  = redactContainers(d.texts)]

-----------------------------------------------------------------------------
(* The documents redact is called with *)

MaxTextLen == 2

MaxRedactRuns == 2

TagAttrs == { Null, <<"redact", "-text">>, <<"note">>,
              <<"note", ",", "Redact", "-image">>, <<"red", ",", "act">> }

Chars == {"a", " ", "\t", MaskGlyph}

HelloWorld == <<"H", "e", "l", "l", "o", " ", "W", "o", "r", "l", "d">>

\* a character outside the BMP is two code units
Emoji == <<"\\uD83D", "\\uDE00">>

TextNodes == SeqsUpTo(Chars, MaxTextLen) \cup {HelloWorld, Emoji}

TextNode(t) == [kind |-> "text", text |-> t]

Tspan(tags, nodes) == [kind |-> "tspan", tags |-> tags, nodes |-> nodes]

TextElems ==
    {[tags |-> g, children |-> <<TextNode(t)>>] : g \in TagAttrs, t \in TextNodes}
    \cup {[tags |-> g, children |-> <<TextNode(<<"a", " ">>), Tspan(h, <<t>>)>>] :
            g \in {Null, <<"redact", "-text">>}, h \in {Null, <<"REDACT">>},
            t \in {HelloWorld, <<" ", " ">>, <<"a", "\t">>}}

Tagged(href, tags) == [Image(href) EXCEPT !.tags = tags]

RedactImageLists ==
    { <<>>, <<Tagged(LocalA, <<"note">>)>>, <<Tagged(LocalA, <<"red", ",", "act">>)>>,
      <<Tagged(LocalA, <<"redact", "-image">>)>>,
      <<Tagged(LocalA, <<"note", ",", "Redact", "-image">>), Tagged(UrlA, Null)>> }

DefsLists == { <<>>, << <<"shadow">> >>, << <<>>, <<FILTER_ID>> >> }

RedactDocs ==
    {[EmptyDoc EXCEPT !.images = i, !.defs = f, !.texts = <<t>>] :
        i \in RedactImageLists, f \in DefsLists, t \in TextElems}

\* svgProcessor.redact(content)
CallRedact ==
    /\ pc = "idle"
    /\ \E d \in RedactDocs :
         /\ redactInput' = d
         /\ redactOutput' = redact(d)
    /\ redactRuns' = 1
    /\ pc' = "redacted"
    /\ UNCHANGED <<bundleVars, zipVars, pdfVars, appVars, tagVars>>

\* svgProcessor.redact applied to its own result
RedactAgain ==
    /\ pc = "redacted"
    /\ redactRuns < MaxRedactRuns
    /\ redactOutput' = redact(redactOutput)
    /\ redactRuns' = redactRuns + 1
    /\ UNCHANGED <<pc, redactInput, bundleVars, zipVars, pdfVars, appVars, tagVars>>

NextRedact == CallRedact \/ RedactAgain

SpecRedact == Init /\ [][NextRedact]_vars

\* the text nodes of a document: <<k, j, n>> is node n of child j of text element k
\* (a child that is itself a text node is its own node 1)
NodeAt(d, k, j, n) ==
    IF d.texts[k].children[j].kind = "tspan"
    THEN d.texts[k].children[j].nodes[n]
    ELSE d.texts[k].children[j].text

NodePaths(d) ==
    {p \in (1..Len(d.texts)) \X (1..2) \X (1..1) :
        /\ p[2] <= Len(d.texts[p[1]].children)
        /\ d.texts[p[1]].children[p[2]].kind = "tspan" => p[3] <= Len(d.texts[p[1]].children[p[2]].nodes)}

UnderTarget(d, p) ==
    \/ shouldRedact(d.texts[p[1]])
    \/ /\ d.texts[p[1]].children[p[2]].kind = "tspan"
       /\ shouldRedact(d.texts[p[1]].children[p[2]])

FilterCount(d) ==
    Cardinality(UNION {{<<k, j>> : j \in {j \in 1..Len(d.defs[k]) : d.defs[k][j] = FILTER_ID}} :
                          k \in 1..Len(d.defs)})

\* the tags of an annotation: the attribute split on ","
RECURSIVE TagsOf(_)
TagsOf(attr) ==
    IF \A i \in 1..Len(attr) : attr[i] # ","
    THEN {attr}
    ELSE LET i == CHOOSE i \in 1..Len(attr) :
                      attr[i] = "," /\ \A h \in 1..(i - 1) : attr[h] # ","
         IN  {SubSeq(attr, 1, i - 1)} \cup TagsOf(SubSeq(attr, i + 1, Len(attr)))

\* some tag of the annotation contains "redact", whatever the case of its letters
NamesRedact(attr) ==
    /\ attr # Null
    /\ \E tag \in TagsOf(attr) :
          \E i \in 1..Len(tag) : tag[i] \in {"redact", "Redact", "REDACT"}

ImageTargets(d) == {i \in 1..Len(d.images) : NamesRedact(d.images[i].tags)}

\* C13: after one redact or several in a row, the document holds at most one
\* filter definition redact-blur: exactly one, referenced by every target image,
\* when some image is a target, and none when no image is a target and the input
\* had none
C13_SingleBlurFilter ==
    pc = "redacted" =>
        /\ FilterCount(redactOutput) <= 1
        /\ ImageTargets(redactInput) # {} =>
              /\ FilterCount(redactOutput) = 1
              /\ \A i \in ImageTargets(redactInput) :
                    redactOutput.images[i].filter = FilterUrl
        /\ (ImageTargets(redactInput) = {} /\ FilterCount(redactInput) = 0) =>
              FilterCount(redactOutput) = 0

C13_Witness ==
    /\ pc = "redacted"
    /\ redactRuns = 2
    /\ ImageTargets(redactInput) # {}
    /\ FilterCount(redactInput) = 0
    /\ FilterCount(redactOutput) = 1

\* C14: an image is blurred, and a text node masked, exactly when the annotation
\* of the image, or of the text or tspan the node is under, has a tag whose name
\* contains "redact" in any case; everything else comes out as it went in
C14_TargetIffTagNamesRedact ==
    (pc = "redacted" /\ redactRuns = 1) =>
        /\ \A i \in 1..Len(redactInput.images) :
              IF NamesRedact(redactInput.images[i].tags)
              THEN redactOutput.images[i].filter = FilterUrl
              ELSE redactOutput.images[i] = redactInput.images[i]
        /\ \A p \in NodePaths(redactInput) :
              LET t == NodeAt(redactInput, p[1], p[2], p[3])
                  m == NodeAt(redactOutput, p[1], p[2], p[3])
                  named == \/ NamesRedact(redactInput.texts[p[1]].tags)
                           \/ /\ redactInput.texts[p[1]].children[p[2]].kind = "tspan"
                              /\ NamesRedact(redactInput.texts[p[1]].children[p[2]].tags)
              IN  IF named THEN m = redactTextNode(t) ELSE m = t

C14_Witness ==
    /\ pc = "redacted"
    /\ redactRuns = 1
    /\ Len(redactInput.images) = 2
    /\ redactInput.images[1].tags = <<"note", ",", "Redact", "-image">>
    /\ redactOutput.images[1].filter = FilterUrl
    /\ redactOutput.images[2].filter = Null
    /\ redactInput.texts[1].tags = <<"red", ",", "act">>
    /\ redactInput.texts[1].children = <<TextNode(<<"a", " ">>)>>
    /\ redactOutput.texts[1].children = redactInput.texts[1].children


-----------------------------------------------------------------------------
(* App: the collection, and App.downloadZip *)

MaxFiles == 2

\* ProcessingStatus
IDLE       == "IDLE"
PROCESSING == "PROCESSING"
COMPLETED  == "COMPLETED"
ERROR      == "ERROR"

getValidFilesWithFailed(fs) == SelectSeq(fs, LAMBDA f : f.status # PROCESSING)

\* getValidFiles(): the files that are COMPLETED or IDLE, in collection order
getValidFiles(fs) == SelectSeq(fs, LAMBDA f : f.status = COMPLETED \/ f.status = IDLE)

\* JSZip's file(path, data): one entry per path, a second write replaces the data
zipFile(z, path, data) ==
    IF \E i \in 1..Len(z) : z[i].path = path
    THEN [i \in 1..Len(z) |-> IF z[i].path = path THEN [z[i] EXCEPT !.data = data] ELSE z[i]]
    ELSE Append(z, [path |-> path, data |-> data])

addAssetToZipUnguarded(st, filename, blob) ==
    [zip   |-> zipFile(st.zip,
                       (IF isFontFile(filename) THEN <<"fonts", "/">> ELSE <<"images", "/">>)
                           \o filename,
                       blob),
     added |-> st.added \cup {filename}]

\* addAssetToZip(filename, blob), on the archive and the addedAssets set
addAssetToZip(st, filename, blob) ==
    IF filename \in st.added THEN st
    ELSE [zip   |-> zipFile(st.zip,
                            (IF isFontFile(filename) THEN <<"fonts", "/">> ELSE <<"images", "/">>)
                                \o filename,
                            blob),
          added |-> st.added \cup {filename}]

RECURSIVE addPool(_, _, _, _)
\* preloadedAssets.forEach((blob, filename) => addAssetToZip(filename, blob)), the
\* Map iterated in its insertion order
addPool(st, pool, order, k) ==
    IF k > Len(order) THEN st
    ELSE addPool(addAssetToZip(st, order[k], pool[order[k]]), pool, order, k + 1)

RECURSIVE addAssets(_, _, _)
\* file.assets.forEach(asset => addAssetToZip(asset.localFileName, asset.blob))
addAssets(st, fileAssets, k) ==
    IF k > Len(fileAssets) THEN st
    ELSE addAssets(addAssetToZip(st, fileAssets[k].localFileName, fileAssets[k].blob),
                   fileAssets, k + 1)

RECURSIVE addFiles(_, _, _)
\* validFiles.forEach: the markup (redaction applied) under the file's name, then
\* the file's assets
addFiles(st, validFiles, k) ==
    IF k > Len(validFiles) THEN st
    ELSE LET file   == validFiles[k]
             marked == IF file.processedContent # Null
                       THEN [st EXCEPT !.zip = zipFile(st.zip, file.name,
                                                       redact(file.processedContent))]
                       ELSE st
         IN  addFiles(addAssets(marked, file.assets, 1), validFiles, k + 1)

\* zip.folder("images"), zip.folder("fonts")
EmptyZip == << [path |-> <<"images", "/">>, data |-> [dir |-> TRUE]],
               [path |-> <<"fonts", "/">>, data |-> [dir |-> TRUE]] >>

\* the archive downloadZip hands to generateAsync
buildZip(fs, pool, order) ==
    addFiles(addPool([zip |-> EmptyZip, added |-> {}], pool, order, 1),
             getValidFiles(fs), 1).zip

\* the insertion orders a Map with these keys can have
Orders(names) ==
    {o \in [1..Cardinality(names) -> names] : \A i, j \in DOMAIN o : o[i] = o[j] => i = j}

SharedPng == <<"shared", ".", "png">>

ZipPools == { Pool({}), Pool({SharedPng, FontBare}) }

PlainDoc  == [EmptyDoc EXCEPT
                !.images = <<Tagged(ImagesPath(SharedPng), <<"note">>)>>,
                !.texts  = <<[tags |-> Null, children |-> <<TextNode(<<"a", " ">>)>>]>>]

SecretDoc == [EmptyDoc EXCEPT
                !.images = <<Tagged(ImagesPath(SharedPng), <<"redact", "-image">>)>>,
                !.texts  = <<[tags |-> <<"redact", "-text">>,
                              children |-> <<TextNode(<<"a", " ">>)>>]>>]

Asset(url, name, blob) == [originalUrl |-> url, localFileName |-> name, blob |-> blob]

Fetched(url) == [src |-> "fetch", of |-> url]

\* the asset lists a bundled document can hold: adopted from the pool (the pool's
\* blob, or the blob the pool held under that name at the time), fetched under a
\* synthesized name, or several of them
AssetLists ==
    { <<>>,
      <<Asset(SharedPng, SharedPng, PoolBlob(SharedPng))>>,
      <<Asset(SharedPng, SharedPng, [src |-> "pool", of |-> <<"older">>])>>,
      <<Asset(UrlA, <<"asset_", "h1", ".", "jpg">>, Fetched(UrlA))>>,
      <<Asset(FontUrl, <<"asset_", "h1", ".", "woff">>, Fetched(FontUrl)),
        Asset(HttpRel, <<"asset_", "h1", ".", "jpg">>, Fetched(HttpRel))>> }

File(name, content, status, as) ==
    [id |-> name, name |-> name, processedContent |-> content, status |-> status,
     assets |-> as, errors |-> <<>>, progress |-> IF status = IDLE THEN 0 ELSE 100]

P1 == <<"p1", ".", "svg">>
P2 == <<"p2", ".", "svg">>

\* the files a collection can hold: IDLE as handleFilesAdded makes them, and as
\* bundleFile leaves them
CollectionFiles ==
    {File(P1, c, COMPLETED, as) : c \in {PlainDoc, SecretDoc}, as \in AssetLists}
    \cup {File(P2, c, IDLE, <<>>) : c \in {PlainDoc, SecretDoc}}
    \cup {File(P2, PlainDoc, PROCESSING, <<>>), File(P2, SecretDoc, ERROR, <<>>)}

\* the state intake and bundling left the application in
LoadCollection ==
    /\ pc = "idle"
    /\ files' \in SeqsUpTo(CollectionFiles, MaxFiles)
    /\ preloadedAssets' \in ZipPools
    /\ pc' = "loaded"
    /\ zip' = <<>>
    /\ UNCHANGED <<svgInput, doc, assets, errors, urlToFilenameMap, fontReplacements,
                   totalItems, processedCount, progressLog, fetchLog, imgIdx, itemIdx,
                   matchIdx, css>>
    /\ UNCHANGED <<redactVars, pdfVars, appVars, tagVars>>

filesAfterExportRedacted(fs) ==
    [k \in 1..Len(fs) |->
        IF fs[k].processedContent # Null
        THEN [fs[k] EXCEPT !.processedContent = redact(fs[k].processedContent)]
        ELSE fs[k]]

\* the collection after a step of an export: neither export calls setFiles, and
\* redact and embedAssets parse the markup they are given into a document of their own
filesAfterExport(fs) == fs

downloadZip ==
    /\ pc = "loaded"
    /\ Len(getValidFiles(files)) > 0
    /\ \E order \in Orders(DOMAIN preloadedAssets) :
         zip' = buildZip(files, preloadedAssets, order)
    /\ files' = filesAfterExport(files)
    /\ pc' = "zipped"
    /\ UNCHANGED <<bundleVars, redactVars, pdfVars, appVars, tagVars>>

NextZip == LoadCollection \/ downloadZip

SpecZip == Init /\ [][NextZip]_vars

ZipEntries(path) == {i \in 1..Len(zip) : zip[i].path = path}

\* the valid files whose markup the archive keeps: a later valid file of the same
\* name replaces an earlier one
KeptFiles ==
    LET v == getValidFiles(files)
    IN  {k \in 1..Len(v) : \A j \in (k + 1)..Len(v) : v[j].name # v[k].name}

Filters(d) == [i \in 1..Len(d.images) |-> d.images[i].filter]

\* C7: the markup written for each exported document has redaction NOT baked in: its
\* text content and image filter attributes are those of the stored processedContent
C7_ArchiveMarkupNotRedacted ==
    pc = "zipped" =>
        \A k \in KeptFiles :
            LET f == getValidFiles(files)[k]
            IN  \A i \in ZipEntries(f.name) :
                    /\ zip[i].data.texts = f.processedContent.texts
                    /\ Filters(zip[i].data) = Filters(f.processedContent)

AssetNames ==
    DOMAIN preloadedAssets
    \cup UNION {{f.assets[j].localFileName : j \in 1..Len(f.assets)} :
                  f \in {getValidFiles(files)[k] : k \in 1..Len(getValidFiles(files))}}

\* the blob of the first write under a filename
FirstWritten(name) ==
    IF name \in DOMAIN preloadedAssets THEN preloadedAssets[name]
    ELSE LET v    == getValidFiles(files)
             hits == {p \in (1..Len(v)) \X (1..2) :
                         /\ p[2] <= Len(v[p[1]].assets)
                         /\ v[p[1]].assets[p[2]].localFileName = name}
             first == CHOOSE p \in hits : \A q \in hits :
                         p[1] < q[1] \/ (p[1] = q[1] /\ p[2] <= q[2])
         IN  v[first[1]].assets[first[2]].blob

\* the entries stored inside images/ or fonts/
AssetEntries ==
    {i \in 1..Len(zip) :
        /\ Len(zip[i].path) > 2
        /\ \/ StartsWith(zip[i].path, <<"images", "/">>)
           \/ StartsWith(zip[i].path, <<"fonts", "/">>)}

\* C8: the archive holds exactly one entry per asset filename, in one folder, and it
\* is the first asset written under that name (the pool's, else the first
\* document's); two documents with the pool asset shared.png give one
\* images/shared.png
C8_ArchiveFilenamesUnique ==
    pc = "zipped" =>
        /\ \A i, j \in AssetEntries : zip[i].path = zip[j].path => i = j
        /\ \A n \in AssetNames :
             LET inImages == ZipEntries(<<"images", "/">> \o n)
                 inFonts  == ZipEntries(<<"fonts", "/">> \o n)
             IN  /\ Cardinality(inImages \cup inFonts) = 1
                 /\ \A i \in inImages \cup inFonts : zip[i].data = FirstWritten(n)
        /\ Cardinality(AssetEntries) = Cardinality(AssetNames)

C8_Witness ==
    /\ pc = "zipped"
    /\ Len(files) = 2
    /\ SharedPng \in DOMAIN preloadedAssets
    /\ \A k \in 1..2 : /\ files[k].status = COMPLETED
                       /\ Len(files[k].assets) = 1
                       /\ files[k].assets[1].localFileName = SharedPng
    /\ files[1].assets[1].blob # files[2].assets[1].blob
    /\ Cardinality(ZipEntries(ImagesPath(SharedPng))) = 1


-----------------------------------------------------------------------------
(* PdfGenerator: getSvgDimensions, detectBackgroundColor, embedAssets *)

pdfWidth == 210

\* a JavaScript number: an integer of the model, or NaN
Num(v) == [nan |-> FALSE, v |-> v]
NaN    == [nan |-> TRUE, v |-> 0]

\* !x for a number
Falsy(x) == x.nan \/ x.v = 0

NumberOf(tok) ==
    CASE tok = "0"   -> Num(0)
      [] tok = "100" -> Num(100)
      [] tok = "105" -> Num(105)
      [] tok = "210" -> Num(210)
      [] tok = "297" -> Num(297)
      [] tok = "-5"  -> Num(0 - 5)
      [] OTHER -> NaN

\* parseFloat: the number the string starts with, NaN when it starts with none
parseFloat(str) == IF str = <<>> THEN NaN ELSE NumberOf(str[1])

Separators == {" ", ","}

RECURSIVE SplitRuns(_)
\* str.split(/[\s,]+/)
SplitRuns(str) ==
    LET i == FirstTok(str, Separators)
    IN  IF i = 0 THEN <<str>>
        ELSE LET after == {j \in i..Len(str) : str[j] \notin Separators}
                 next  == IF after = {} THEN Len(str) + 1
                          ELSE CHOOSE j \in after : \A k \in after : j <= k
             IN  <<SubSeq(str, 1, i - 1)>> \o SplitRuns(From(str, next))

getSvgDimensions(d) ==
    IF d.parserError THEN [width |-> Num(100), height |-> Num(100)]
    ELSE LET parts == IF d.viewBox # Null
                      THEN [k \in 1..Len(SplitRuns(d.viewBox)) |->
                               parseFloat(SplitRuns(d.viewBox)[k])]
                      ELSE <<>>
             w0 == IF Len(parts) = 4 THEN parts[3] ELSE Num(0)
             h0 == IF Len(parts) = 4 THEN parts[4] ELSE Num(0)
             useAttrs == (Falsy(w0) \/ Falsy(h0)) /\ d.width # Null /\ d.height # Null
             w1 == IF useAttrs
                   THEN (IF Falsy(parseFloat(d.width)) THEN Num(0) ELSE parseFloat(d.width))
                   ELSE w0
             h1 == IF useAttrs
                   THEN (IF Falsy(parseFloat(d.height)) THEN Num(0) ELSE parseFloat(d.height))
                   ELSE h0
         IN  IF Falsy(w1) \/ Falsy(h1)
             THEN [width |-> Num(210), height |-> Num(297)]
             ELSE [width |-> w1, height |-> h1]

RECURSIVE FirstBackgroundRect(_, _, _, _)
\* the fill of the first rect that is 100% x 100% or has the root's width and height
FirstBackgroundRect(rects, width, height, k) ==
    IF k > Len(rects) THEN Null
    ELSE IF \/ rects[k].width = <<"100", "%">> /\ rects[k].height = <<"100", "%">>
            \/ rects[k].width = width /\ rects[k].height = height
         THEN rects[k].fill
         ELSE FirstBackgroundRect(rects, width, height, k + 1)

detectBackgroundColor(d) ==
    IF d.parserError THEN Null
    ELSE IF d.background # Null THEN d.background
    ELSE FirstBackgroundRect(d.rects, d.width, d.height, 1)

\* blobToBase64(blob)
DataUri(blob) == <<"data", ":", blob.src, ";", "base64", ",">> \o blob.of

\* the MIME type chosen from the url's extension
FontMime(url) ==
    LET lowerUrl == toLowerCase(url)
    IN  IF EndsWith(lowerUrl, <<".", "woff", "2">>) THEN "font/woff2"
        ELSE IF EndsWith(lowerUrl, <<".", "woff">>) THEN "font/woff"
        ELSE IF EndsWith(lowerUrl, <<".", "ttf">>) THEN "font/ttf"
        ELSE IF EndsWith(lowerUrl, <<".", "otf">>) THEN "application/font-sfnt"
        ELSE IF EndsWith(lowerUrl, <<".", "eot">>) THEN "application/vnd.ms-fontobject"
        ELSE "application/octet-stream"

\* `data:${mime};base64,${base64Content}`
FontDataUri(url, blob) == <<"data", ":", FontMime(url), ";", "base64", ",">> \o blob.of

\* findBlob(path): the file's own asset of that name, else the pool's
findBlob(path, file, pool) ==
    LET name == getFilename(path)
        own  == {k \in 1..Len(file.assets) : file.assets[k].localFileName = name}
    IN  IF own # {} THEN file.assets[CHOOSE k \in own : \A j \in own : k <= j].blob
        ELSE IF name \in DOMAIN pool THEN pool[name]
        ELSE Null

RECURSIVE embedFonts(_, _, _, _, _)
\* for (const match of matches): css.replace(url, correctDataUri) for a font found
embedFonts(text, matches, k, file, pool) ==
    IF k > Len(matches) THEN text
    ELSE LET url  == matches[k].url
             blob == IF isFontFile(url) THEN findBlob(url, file, pool) ELSE Null
         IN  embedFonts(IF blob # Null THEN ReplaceFirst(text, url, FontDataUri(url, blob))
                        ELSE text,
                        matches, k + 1, file, pool)

\* embedAssets(svgContent, file, preloadedAssets), on a copy of the document
embedAssets(d, file, pool) ==
    IF d.parserError THEN d
    ELSE [d EXCEPT
            !.images = [i \in 1..Len(d.images) |->
                          LET href == ImageHref(d.images[i])
                              blob == IF href # Null THEN findBlob(href, file, pool) ELSE Null
                          IN  IF blob # Null
                              THEN [d.images[i] EXCEPT !.href = DataUri(blob),
                                                       !.hasXlink = FALSE, !.xlink = Null]
                              ELSE d.images[i]],
            !.styles = [k \in 1..Len(d.styles) |->
                          embedFonts(d.styles[k], MatchAll(d.styles[k]), 1, file, pool)]]

-----------------------------------------------------------------------------
(* PdfGenerator.generate *)

MaxPdfFiles == 3

\* the page format [pdfWidth, pdfHeight] with pdfHeight = pdfWidth / (svgW / svgH),
\* kept as the fraction heightNum / heightDen, and the orientation
PageConfig(dims) ==
    LET svgW == dims.width.v
        svgH == dims.height.v
        wider == IF svgW > 0 THEN pdfWidth * svgW > pdfWidth * svgH
                 ELSE pdfWidth * svgW < pdfWidth * svgH
    IN  [width |-> pdfWidth, heightNum |-> pdfWidth * svgH, heightDen |-> svgW,
         orientation |-> IF wider THEN "l" ELSE "p"]

\* new jsPDF({orientation, format}) / doc.addPage(format, orientation), then addImage
RasterPage(config, content, image) ==
    [kind |-> "page", width |-> config.width, heightNum |-> config.heightNum,
     heightDen |-> config.heightDen, orientation |-> config.orientation,
     image |-> image, content |-> content, fill |-> Null, text |-> Null]

insideCoverSizedAsNext(config, nextFile) ==
    LET bgColor == IF nextFile.processedContent # Null
                      /\ detectBackgroundColor(nextFile.processedContent) # Null
                   THEN detectBackgroundColor(nextFile.processedContent)
                   ELSE <<"#FFFFFF">>
        next    == IF nextFile.processedContent # Null
                   THEN PageConfig(getSvgDimensions(nextFile.processedContent))
                   ELSE config
    IN  [kind |-> "cover", width |-> next.width, heightNum |-> next.heightNum,
         heightDen |-> next.heightDen, orientation |-> next.orientation,
         image |-> FALSE, content |-> Null,
         fill |-> IF toLowerCase(bgColor) \notin {<<"#ffffff">>, <<"white">>}
                  THEN bgColor ELSE Null,
         text |-> Null]

\* the inside cover: doc.addPage([pdfWidth, pdfHeight], orientation) with this
\* page's values, filled with the next file's background unless that is white
insideCover(config, nextFile) ==
    LET bgColor == IF nextFile.processedContent # Null
                      /\ detectBackgroundColor(nextFile.processedContent) # Null
                   THEN detectBackgroundColor(nextFile.processedContent)
                   ELSE <<"#FFFFFF">>
    IN  [kind |-> "cover", width |-> config.width, heightNum |-> config.heightNum,
         heightDen |-> config.heightDen, orientation |-> config.orientation,
         image |-> FALSE, content |-> Null,
         fill |-> IF toLowerCase(bgColor) \notin {<<"#ffffff">>, <<"white">>}
                  THEN bgColor ELSE Null,
         text |-> Null]

\* new jsPDF() / doc.addPage() without arguments: A4 portrait, then doc.text(...)
Placeholder(name) ==
    [kind |-> "placeholder", width |-> 210, heightNum |-> 297, heightDen |-> 1,
     orientation |-> "p", image |-> FALSE, content |-> Null, fill |-> Null,
     text |-> name]

catchPageDropsFirst(pages, name) ==
    IF pages = Null THEN Null ELSE Append(pages, Placeholder(name))

catchPageAtFront(pages, name) ==
    IF pages = Null THEN <<Placeholder(name)>> ELSE <<Placeholder(name)>> \o pages

\* the catch block: if (!doc) doc = new jsPDF() else doc.addPage(); doc.text(...)
catchPage(pages, name) ==
    IF pages = Null THEN <<Placeholder(name)>> ELSE Append(pages, Placeholder(name))

needsInsideCoverAfterEveryPage(i, n) == n > 1

\* if (i === 0 && files.length > 1)
needsInsideCover(i, n) == i = 0 /\ n > 1

\* one iteration of the loop over files; `failure` is where the page throws:
\* "before" the page is added (redact, embedAssets, getSvgDimensions, new jsPDF),
\* "after" it (svgToDataUrl, addImage), or "none"
processPage(pages, fs, i, pool, failure) ==
    LET file     == fs[i + 1]
        embedded == embedAssets(redact(file.processedContent), file, pool)
        config   == PageConfig(getSvgDimensions(embedded))
        added    == IF pages = Null THEN <<RasterPage(config, embedded, FALSE)>>
                    ELSE Append(pages, RasterPage(config, embedded, FALSE))
        drawn    == [added EXCEPT ![Len(added)].image = TRUE]
    IN  IF failure = "before" THEN catchPage(pages, file.name)
        ELSE IF failure = "after" THEN catchPage(added, file.name)
        ELSE IF needsInsideCover(i, Len(fs)) THEN Append(drawn, insideCover(config, fs[2]))
        ELSE drawn

Failures == {"none", "before", "after"}

PortraitDoc  == [EmptyDoc EXCEPT !.viewBox = <<"0", " ", "0", " ", "210", " ", "297">>,
                                 !.images = <<Tagged(ImagesPath(SharedPng), <<"redact", "-image">>)>>]

LandscapeDoc == [EmptyDoc EXCEPT !.width = <<"297", "mm">>, !.height = <<"210", "mm">>,
                                 !.rects = <<[width |-> <<"297", "mm">>, height |-> <<"210", "mm">>,
                                              fill |-> <<"#ff0000">>]>>]

SquareDoc    == [EmptyDoc EXCEPT !.viewBox = <<"0", ",", "0", ",", "100", ",", "100">>,
                                 !.width = <<"105">>, !.height = <<"297">>,
                                 !.background = <<"White">>]

BareDoc      == [EmptyDoc EXCEPT !.viewBox = <<" ", "0", " ", "0", " ", "210", " ", "105">>,
                                 !.styles = <<Url(FontBare)>>]

BrokenDoc    == [EmptyDoc EXCEPT !.parserError = TRUE]

MirroredDoc  == [EmptyDoc EXCEPT !.viewBox = <<"0", " ", "0", " ", "-5", " ", "100">>,
                                 !.width = <<"210">>, !.height = <<"297">>]

PdfContents == {Null, PortraitDoc, LandscapeDoc, SquareDoc, BareDoc, BrokenDoc, MirroredDoc}

PdfFileChoices == {File(P1, c, COMPLETED, <<>>) : c \in PdfContents}

\* pdfGenerator.generate(files, preloadedAssets)
CallGenerate ==
    /\ pc = "idle"
    /\ pdfFiles' \in SeqsUpTo(PdfFileChoices, MaxPdfFiles)
    /\ preloadedAssets' = Pool({SharedPng, FontBare})
    /\ pdfI' = 0
    /\ pdfDoc' = Null
    /\ pdfLog' = <<>>
    /\ saved' = Null
    /\ pc' = "generating"
    /\ UNCHANGED <<svgInput, doc, assets, errors, urlToFilenameMap, fontReplacements,
                   totalItems, processedCount, progressLog, fetchLog, imgIdx, itemIdx,
                   matchIdx, css>>
    /\ UNCHANGED <<redactVars, zipVars, appVars, tagVars>>

\* a file without processedContent is passed over
SkipFile ==
    /\ pc = "generating"
    /\ pdfI < Len(pdfFiles)
    /\ pdfFiles[pdfI + 1].processedContent = Null
    /\ pdfI' = pdfI + 1
    /\ pdfLog' = Append(pdfLog, "skipped")
    /\ UNCHANGED <<pc, pdfFiles, pdfDoc, saved, bundleVars, redactVars, zipVars, appVars, tagVars>>

\* the try block of one file, and its catch
GeneratePage ==
    /\ pc = "generating"
    /\ pdfI < Len(pdfFiles)
    /\ pdfFiles[pdfI + 1].processedContent # Null
    /\ \E failure \in Failures :
         /\ pdfDoc' = processPage(pdfDoc, pdfFiles, pdfI, preloadedAssets, failure)
         /\ pdfLog' = Append(pdfLog, IF failure = "none" THEN "success" ELSE "failed")
    /\ pdfI' = pdfI + 1
    /\ files' = filesAfterExport(files)
    /\ UNCHANGED <<pc, pdfFiles, saved, zip, bundleVars, redactVars, appVars, tagVars>>

\* if (doc) doc.save('photo_book.pdf')
SavePdf ==
    /\ pc = "generating"
    /\ pdfI = Len(pdfFiles)
    /\ saved' = pdfDoc
    /\ pc' = "generated"
    /\ UNCHANGED <<pdfFiles, pdfI, pdfDoc, pdfLog, bundleVars, redactVars, zipVars, appVars, tagVars>>

NextPdf == CallGenerate \/ SkipFile \/ GeneratePage \/ SavePdf

SpecPdf == Init /\ [][NextPdf]_vars


-----------------------------------------------------------------------------
(* Claims about PdfGenerator.generate *)

\* two pages have the same format and orientation
SameSize(p, q) ==
    /\ p.width = q.width
    /\ p.heightNum * q.heightDen = q.heightNum * p.heightDen
    /\ p.orientation = q.orientation

\* the page configuration generate computes for a file with content
ConfigOf(file) ==
    PageConfig(getSvgDimensions(embedAssets(redact(file.processedContent), file,
                                            preloadedAssets)))

\* the first page succeeded and more files follow: an inside cover was inserted
HasInsideCover ==
    /\ pdfDoc # Null
    /\ Len(pdfDoc) >= 2
    /\ pdfDoc[2].kind = "cover"

Succeeded == {k \in 1..Len(pdfLog) : pdfLog[k] = "success"}

Attempted == {k \in 1..Len(pdfLog) : pdfLog[k] # "skipped"}

\* C10 as written: an output document is saved if and only if at least one page
\* was processed successfully.
C10_SavedIffSomePageSucceeded ==
    pc = "generated" => ((saved # Null) <=> (Succeeded # {}))

\* C10: an output document is saved if and only if at least one document had
\* content: whenever a page succeeded, and also when every page failed, the
\* document then holding only error placeholder pages.  No output is produced only
\* when no document had content.
C10_SavedIffSomePageAttempted ==
    /\ pc = "generated" =>
          /\ (saved # Null) <=> (Attempted # {})
          /\ Succeeded # {} => saved # Null
          /\ saved # Null => /\ saved = pdfDoc
                             /\ Len(saved) >= Cardinality(Attempted)
          /\ (saved # Null /\ Succeeded = {})
                => \A k \in 1..Len(saved) :
                      saved[k].kind = "placeholder" \/ ~saved[k].image
    /\ pc # "generated" => saved = Null

\* every page of a two-document export failed, and a document was still saved
C10_Witness ==
    /\ pc = "generated"
    /\ Len(pdfFiles) = 2
    /\ Cardinality(Attempted) = 2
    /\ Succeeded = {}
    /\ saved # Null
    /\ \E k \in 1..Len(saved) : saved[k].kind = "placeholder"

\* the pages file i (counted from 1) adds to the document: none when it has no
\* content, its drawn page (and the inside cover after the first) when it succeeds,
\* and when it fails the placeholder, after the blank page the file had already
\* added when `thrown` is "after"
Contribution(i, outcome, thrown) ==
    LET file     == pdfFiles[i]
        embedded == embedAssets(redact(file.processedContent), file, preloadedAssets)
        config   == ConfigOf(file)
    IN  CASE outcome = "skipped" -> <<>>
          [] outcome = "success" ->
                <<RasterPage(config, embedded, TRUE)>>
                \o (IF i = 1 /\ Len(pdfFiles) > 1 THEN <<insideCover(config, pdfFiles[2])>>
                    ELSE <<>>)
          [] outcome = "failed" ->
                (IF thrown = "after" THEN <<RasterPage(config, embedded, FALSE)>> ELSE <<>>)
                \o <<Placeholder(file.name)>>

PagesOf(pages) == IF pages = Null THEN <<>> ELSE pages

\* one step of the run: the next file is visited and its pages are appended, or
\* every file has been visited and the document is saved as it stands
RunStep(Thrown) ==
    \/ /\ pdfI < Len(pdfFiles)
       /\ pdfI' = pdfI + 1
       /\ pc' = "generating"
       /\ pdfFiles' = pdfFiles
       /\ Len(pdfLog') = pdfI'
       /\ (pdfLog'[pdfI'] = "skipped") <=> (pdfFiles[pdfI'].processedContent = Null)
       /\ \E thrown \in Thrown :
             PagesOf(pdfDoc') = PagesOf(pdfDoc) \o Contribution(pdfI', pdfLog'[pdfI'], thrown)
    \/ /\ pdfI = Len(pdfFiles)
       /\ pc' = "generated"
       /\ saved' = pdfDoc
       /\ pdfDoc' = pdfDoc

C16_DimensionsStrictlyPositive ==
    pc \in {"generating", "generated"} =>
        \A k \in 1..Len(pdfFiles) :
            pdfFiles[k].processedContent # Null =>
                LET dims == getSvgDimensions(pdfFiles[k].processedContent)
                IN  /\ ~dims.width.nan /\ dims.width.v > 0
                    /\ ~dims.height.nan /\ dims.height.v > 0

\* the positions of the inside-cover pages of the document
Covers == {k \in 1..Len(PagesOf(pdfDoc)) : pdfDoc[k].kind = "cover"}

\* the first file has been visited and its page was drawn
FirstPageCompleted == pdfI >= 1 /\ pdfLog[1] = "success"

\* C23: generate inserts an inside-cover page if and only if more than one document
\* is exported and the first document's page completed successfully; there is at
\* most one such page, and it is the second page of the output, directly after
\* the first document's page and before any page of the second document
C23_InsideCoverIffFirstOfMany ==
    pc \in {"generating", "generated"} =>
        /\ (Covers # {}) <=> (Len(pdfFiles) > 1 /\ FirstPageCompleted)
        /\ Covers \subseteq {2}
        /\ Covers # {} =>
              /\ pdfDoc[1].kind = "page" /\ pdfDoc[1].image
              /\ pdfDoc[1].content =
                    embedAssets(redact(pdfFiles[1].processedContent), pdfFiles[1],
                                preloadedAssets)
              /\ Len(pdfDoc) > 2 => pdfI >= 2
              /\ pdfI = 1 => Len(pdfDoc) = 2

\* a three-document export whose first page is drawn and whose second fails: one
\* inside cover, in second place
C23_Witness ==
    /\ pc = "generated"
    /\ pdfLog = <<"success", "failed", "success">>
    /\ Covers = {2}
    /\ saved[1].image /\ saved[3].kind # "cover"

\* the number of pages of the output a run should have: one per file with
\* content, and the inside cover
ExpectedPages == Cardinality(Attempted) + Cardinality(Covers)

\* C24: the output has exactly one page per processed document (a raster page on
\* success, a single placeholder on failure) plus the inside cover when there is
\* one: a page that fails at any step contributes one page, never two
C24_OnePagePerDocument ==
    pc = "generated" =>
        /\ Len(PagesOf(saved)) = ExpectedPages
        /\ \A k \in 1..Len(PagesOf(saved)) :
              saved[k].kind = "page" => saved[k].image


-----------------------------------------------------------------------------
(* App: intake, bundleFile, removeFile, and the two exports *)

\* bundleResources as one function of its input: the image loop
RECURSIVE bundleImages(_, _, _)
bundleImages(st, k, fx) ==
    IF k > Len(st.doc.images) THEN st
    ELSE CHOOSE out \in
           { bundleImages([doc    |-> IF r.localName # Null
                                      THEN [st.doc EXCEPT !.images[k] =
                                               RewriteImage(st.doc.images[k], r.localName)]
                                      ELSE st.doc,
                           assets |-> r.assets, map |-> r.map, errors |-> r.errors],
                          k + 1, fx) :
               r \in {processAsset(ImageHref(st.doc.images[k]), FALSE, fx,
                                   [assets |-> st.assets, map |-> st.map,
                                    errors |-> st.errors])} } : TRUE

\* the font loop: match j of item i, text being the item's local css
RECURSIVE bundleFonts(_, _, _, _, _, _)
bundleFonts(st, items, i, j, text, fx) ==
    IF i > Len(items) THEN st
    ELSE IF j > Len(items[i].matches)
    THEN bundleFonts([st EXCEPT !.doc.styles[items[i].style] = text], items, i + 1, 1,
                     IF i + 1 <= Len(items) THEN st.doc.styles[items[i + 1].style] ELSE Null,
                     fx)
    ELSE CHOOSE out \in
           { bundleFonts([st EXCEPT !.assets = r.assets, !.map = r.map,
                                    !.errors = r.errors],
                         items, i, j + 1,
                         IF r.localName # Null
                         THEN RewriteCss(text, items[i].matches[j].url, r.localName)
                         ELSE text,
                         fx) :
               r \in {processAsset(IF isFontFile(items[i].matches[j].url)
                                   THEN items[i].matches[j].url ELSE Null,
                                   TRUE, fx,
                                   [assets |-> st.assets, map |-> st.map,
                                    errors |-> st.errors])} } : TRUE

\* what svgProcessor.bundleResources(content, preloadedAssets, onProgress) gives
\* bundleFile: the thrown message, or the result and the number of progress reports
bundleResources(content, fx) ==
    IF content = Null
    THEN [threw |-> TRUE, message |-> "No content to process"]
    ELSE IF content.parserError
    THEN [threw |-> TRUE, message |-> "Invalid SVG file format"]
    ELSE CHOOSE out \in
           { [threw |-> FALSE, content |-> st.doc, assets |-> st.assets,
              errors |-> st.errors, total |-> CountItems(content)] :
               st \in { CHOOSE withFonts \in
                          { bundleFonts(withImages, items, 1, 1,
                                        IF Len(items) >= 1
                                        THEN content.styles[items[1].style] ELSE Null,
                                        fx) :
                              withImages \in {bundleImages([doc |-> content, assets |-> <<>>,
                                                            map |-> <<>>, errors |-> <<>>],
                                                           1, fx)},
                              items \in {ScanStyles(content.styles, 1)} } : TRUE } } : TRUE

updateFileStatusOrFirst(fs, id, updates) ==
    [k \in 1..Len(fs) |->
        IF fs[k].id = id \/ (k = 1 /\ \A j \in 1..Len(fs) : fs[j].id # id)
        THEN [field \in DOMAIN fs[k] |->
                 IF field \in DOMAIN updates THEN updates[field] ELSE fs[k][field]]
        ELSE fs[k]]

\* setFiles(prev => prev.map(f => f.id === id ? { ...f, ...updates } : f))
updateFileStatus(fs, id, updates) ==
    [k \in 1..Len(fs) |->
        IF fs[k].id = id
        THEN [field \in DOMAIN fs[k] |->
                 IF field \in DOMAIN updates THEN updates[field] ELSE fs[k][field]]
        ELSE fs[k]]

RemoteDoc == [EmptyDoc EXCEPT !.images = <<Image(UrlA)>>,
                              !.texts = <<[tags |-> <<"redact", "-text">>,
                                           children |-> <<TextNode(<<"a", " ">>)>>]>>]

\* the .svg files a user can drop: well-formed, malformed, and empty; at most
\* MaxFiles of them are dropped in one session
Uploads ==
    {[name |-> P1, content |-> c] : c \in {RemoteDoc, BrokenDoc, Null}}
    \cup {[name |-> P2, content |-> SecretDoc]}

\* the asset files dropped along with them
AssetUploads == {{}, {SharedPng}}

\* the answers of the network to one resolution
AppFetchOutcomes ==
    {fx \in FetchOutcomes : ~fx.ok \/ (fx.contentType = Null /\ fx.hash = "h1")}

\* const updatedAssets = new Map(preloadedAssets); newAssets.forEach(set): `pool`
\* is the preloadedAssets of the render the callback was created in
updatedAssets(pool, newAssets) ==
    [n \in DOMAIN pool \cup newAssets |-> IF n \in newAssets THEN PoolBlob(n) ELSE pool[n]]

\* newFiles.map(...): one IDLE entry per file, with a fresh id
newProcessedFiles(newFiles, firstId) ==
    [k \in 1..Len(newFiles) |->
        [id |-> firstId + k - 1, name |-> newFiles[k].name,
         processedContent |-> newFiles[k].content, status |-> IDLE,
         assets |-> <<>>, errors |-> <<>>, progress |-> 0]]

\* handleFilesAdded(newFiles, newAssets), called by Dropzone.handleFileInput: the
\* file input is there on the upload tab and is disabled while a drop is read
handleFilesAdded ==
    /\ pc \in {"idle", "loaded"}
    /\ activeTab = "upload" /\ ~isProcessing
    /\ \E newFiles \in SeqsUpTo(Uploads, MaxFiles - (nextId - 1)), newAssets \in AssetUploads :
         /\ Len(newFiles) > 0 \/ newAssets # {}
         /\ preloadedAssets' = updatedAssets(preloadedAssets, newAssets)
         /\ files' = files \o newProcessedFiles(newFiles, nextId)
         /\ nextId' = nextId + Len(newFiles)
    /\ pc' = "loaded"
    /\ UNCHANGED <<svgInput, doc, assets, errors, urlToFilenameMap, fontReplacements,
                   totalItems, processedCount, progressLog, fetchLog, imgIdx, itemIdx,
                   matchIdx, css>>
    /\ UNCHANGED <<zip, inflight, intakeVars, redactVars, pdfVars, tagVars>>

\* bundleFile(fileItem), up to the call of bundleResources: the Bundle button of an
\* IDLE file, or Bundle All for the IDLE and ERROR files
bundleFile ==
    /\ pc = "loaded"
    /\ \E k \in 1..Len(files), fx \in AppFetchOutcomes :
         /\ files[k].status \in {IDLE, ERROR}
         /\ files' = updateFileStatus(files, files[k].id, [status |-> PROCESSING])
         /\ inflight' = inflight \cup
                {[id |-> files[k].id, count |-> 0,
                  result |-> bundleResources(files[k].processedContent, fx)]}
    /\ UNCHANGED <<pc, zip, nextId, intakeVars, bundleVars, redactVars, pdfVars, tagVars>>

\* the onProgress callback of a resolution in flight
onProgress ==
    /\ pc = "loaded"
    /\ \E r \in inflight :
         /\ ~r.result.threw
         /\ r.count < r.result.total
         /\ files' = updateFileStatus(files, r.id,
                        [progress |-> Percent(r.count + 1, r.result.total)])
         /\ inflight' = (inflight \ {r}) \cup {[r EXCEPT !.count = r.count + 1]}
    /\ UNCHANGED <<pc, zip, nextId, intakeVars, bundleVars, redactVars, pdfVars, tagVars>>

\* the update after bundleResources returned
completedUpdates(result) ==
    [status |-> COMPLETED, processedContent |-> result.content,
     assets |-> result.assets, errors |-> result.errors, progress |-> 100]

errorUpdatesKeepProgress(message) ==
    [status |-> ERROR, errors |-> <<[href |-> Null, message |-> message]>>]

\* the update of the catch block: errors holds the one message, which names no
\* reference
errorUpdates(message) ==
    [status |-> ERROR, progress |-> 100,
     errors |-> <<[href |-> Null, message |-> message]>>]

settledOnlyWhenReturned(r) == ~r.result.threw /\ r.count = r.result.total

\* the await of bundleResources is over: it threw (the catch block runs), or it
\* returned, after the progress report of its last unit
settled(r) == IF r.result.threw THEN TRUE ELSE r.count = r.result.total

\* bundleFile, after bundleResources returned or threw
bundleFileDone ==
    /\ pc = "loaded"
    /\ \E r \in inflight :
         /\ settled(r)
         /\ files' = updateFileStatus(files, r.id,
                        IF r.result.threw THEN errorUpdates(r.result.message)
                        ELSE completedUpdates(r.result))
         /\ inflight' = inflight \ {r}
    /\ UNCHANGED <<pc, zip, nextId, intakeVars, bundleVars, redactVars, pdfVars, tagVars>>

\* setFiles(prev => prev.filter(f => f.id !== id))
removeFile ==
    /\ pc = "loaded"
    /\ \E k \in 1..Len(files) :
         files' = SelectSeq(files, LAMBDA f : f.id # files[k].id)
    /\ UNCHANGED <<pc, zip, inflight, nextId, intakeVars, bundleVars, redactVars, pdfVars,
                   tagVars>>

\* downloadPdf: pdfGenerator.generate(validFiles, preloadedAssets)
downloadPdf ==
    /\ pc = "loaded"
    /\ Len(getValidFiles(files)) > 0
    /\ pdfFiles' = getValidFiles(files)
    /\ pdfI' = 0
    /\ pdfDoc' = Null
    /\ pdfLog' = <<>>
    /\ saved' = Null
    /\ pc' = "generating"
    /\ files' = filesAfterExport(files)
    /\ UNCHANGED <<zip, bundleVars, redactVars, appVars, tagVars>>

NextApp ==
    \/ handleFilesAdded \/ bundleFile \/ onProgress \/ bundleFileDone \/ removeFile
    \/ downloadZip \/ downloadPdf \/ SkipFile \/ GeneratePage \/ SavePdf

SpecApp == Init /\ [][NextApp]_vars


-----------------------------------------------------------------------------
(* Claims about the collection and the exports *)

Malformed(f) ==
    IF f.processedContent = Null THEN FALSE ELSE f.processedContent.parserError

\* the entries of the archive outside images/ and fonts/
MarkupEntries ==
    {i \in 1..Len(zip) :
        /\ ~StartsWith(zip[i].path, <<"images", "/">>)
        /\ ~StartsWith(zip[i].path, <<"fonts", "/">>)}

\* C11: a malformed document is rejected at intake: it is never in the collection
\* in status IDLE or COMPLETED, and never among the files an export selects.
C11_MalformedNeverUsable ==
    /\ \A k \in 1..Len(files) : Malformed(files[k]) => files[k].status \notin {IDLE, COMPLETED}
    /\ \A k \in 1..Len(pdfFiles) : ~Malformed(pdfFiles[k])

StatusIn(S) == {k \in 1..Len(files) : files[k].status \in S}

\* every selected file is an IDLE or COMPLETED document of the collection, in the
\* collection's order, and every markup entry and page comes from a selected file
ExportsOnlyValid ==
    /\ pc = "zipped" =>
          \A i \in MarkupEntries :
             \E k \in StatusIn({IDLE, COMPLETED}) :
                /\ files[k].processedContent # Null
                /\ zip[i].path = files[k].name
                /\ zip[i].data = redact(files[k].processedContent)
    /\ pc \in {"generating", "generated"} =>
          /\ pdfFiles = SelectSeq(files, LAMBDA f : f.status \in {IDLE, COMPLETED})
          /\ \A k \in 1..Len(pdfFiles) : pdfFiles[k].status \notin {PROCESSING, ERROR}

C18_ExportLeavesCollection ==
    [][pc' \in {"zipped", "generating", "generated"}
          => (files' = files /\ preloadedAssets' = preloadedAssets)]_vars

\* an export of a document with redaction-tagged elements has run to its end, one
\* page having failed
C18_Witness ==
    /\ pc = "generated"
    /\ \E k \in 1..Len(pdfLog) : pdfLog[k] = "failed"
    /\ \E k \in 1..Len(files) :
          /\ files[k].processedContent # Null
          /\ files[k].processedContent # redact(files[k].processedContent)

\* the ids of the collection, and the entry of one of them
IdsOf(fs) == {fs[k].id : k \in 1..Len(fs)}

FileOf(fs, id) == fs[CHOOSE k \in 1..Len(fs) : fs[k].id = id]

\* the moves of a status: IDLE -> PROCESSING -> COMPLETED or ERROR, and
\* ERROR -> PROCESSING
StatusMoves ==
    {<<IDLE, PROCESSING>>, <<PROCESSING, COMPLETED>>, <<PROCESSING, ERROR>>,
     <<ERROR, PROCESSING>>}

\* the resolutions in flight for one document
InFlightFor(set, id) == {r \in set : r.id = id}

\* what holds of every document after a step, and of the step itself
StatusDiscipline ==
    /\ \A id \in IdsOf(files') :
          \E f \in {FileOf(files', id)} :
             /\ f.status \in {IDLE, PROCESSING, COMPLETED, ERROR}
             /\ f.progress \in 0..100
             /\ f.status \in {COMPLETED, ERROR} => f.progress = 100
             /\ f.status = IDLE => f.progress = 0
             /\ Cardinality(InFlightFor(inflight', id)) <= 1
             /\ (f.status = PROCESSING) <=> (InFlightFor(inflight', id) # {})
    /\ \A id \in IdsOf(files) \cap IdsOf(files') :
          \/ FileOf(files', id).status = FileOf(files, id).status
          \/ <<FileOf(files, id).status, FileOf(files', id).status>> \in StatusMoves
    /\ \A r \in inflight' \ inflight :
          \/ \E q \in inflight \ inflight' : q.id = r.id /\ q.result = r.result
          \/ /\ r.id \in IdsOf(files)
             /\ FileOf(files, r.id).status \in {IDLE, ERROR}
             /\ InFlightFor(inflight, r.id) = {}

\* C26: a status moves only along IDLE -> PROCESSING -> {COMPLETED, ERROR} and
\* ERROR -> PROCESSING; a resolution is never started for a document that is
\* PROCESSING or COMPLETED, so at most one is in flight per document; progress is
\* within 0..100 and is 100 whenever the status is COMPLETED or ERROR
C26_StatusLifecycle == [][StatusDiscipline]_vars

\* a failed document is being resolved again: it still shows the failure's message
C26_Witness ==
    \E k \in 1..Len(files) :
        /\ files[k].status = PROCESSING
        /\ files[k].errors # <<>>
        /\ InFlightFor(inflight, files[k].id) # {}

\* a callback or the last update of a resolution whose document was removed
OrphanStep == \E r \in inflight \ inflight' : r.id \notin IdsOf(files)

\* a removed document does not come back, and what its resolution still does
\* changes nothing
RemovedStaysOut ==
    /\ \A id \in IdsOf(files') \ IdsOf(files) : id >= nextId
    /\ OrphanStep => files' = files

\* C30: a document removed while its resolution is in flight never re-enters the
\* collection: the later progress callbacks and the completion or failure update
\* of that resolution leave the set and order of documents unchanged and modify
\* no other document
C30_RemovedNeverReenters == [][RemovedStaysOut]_vars

\* the resolution of a removed document has reported all its progress and is
\* about to complete, another document being in the collection
C30_Witness ==
    /\ Len(files) > 0
    /\ \E r \in inflight :
          /\ r.id \notin IdsOf(files)
          /\ ~r.result.threw
          /\ r.count = r.result.total
          /\ r.count > 0


-----------------------------------------------------------------------------
(* TaggingEditor (src/components/TaggingEditor.tsx) *)

MaxTagOps == 4

RECURSIVE split(_, _)
\* str.split(sep)
split(s, sep) ==
    CHOOSE r \in
        {IF \A i \in 1..Len(str) : str[i] # sep THEN <<str>>
         ELSE LET i == CHOOSE i \in 1..Len(str) :
                           str[i] = sep /\ \A h \in 1..(i - 1) : str[h] # sep
              IN  <<SubSeq(str, 1, i - 1)>> \o split(SubSeq(str, i + 1, Len(str)), sep)
         : str \in {s}} : TRUE

RECURSIVE join(_, _)
\* Array.from(set).join(sep)
join(items, sep) ==
    CHOOSE r \in
        {IF Len(its) = 0 THEN <<>>
         ELSE IF Len(its) = 1 THEN its[1]
         ELSE its[1] \o <<sep>> \o join(Tail(its), sep)
         : its \in {items}} : TRUE

\* a Set<string> is the sequence of its members in insertion order
SetHas(set, x) == \E i \in 1..Len(set) : set[i] = x

SetAdd(set, x) == IF SetHas(set, x) THEN set ELSE Append(set, x)

SetDelete(set, x) == SelectSeq(set, LAMBDA y : y # x)

RECURSIVE addAll(_, _, _)
\* tagsToAdd.forEach(tag => currentTags.add(tag)), and new Set(items)
addAll(set, items, k) ==
    CHOOSE r \in
        {IF k > Len(items) THEN st ELSE addAll(SetAdd(st, items[k]), items, k + 1)
         : st \in {set}} : TRUE

RECURSIVE toggleAll(_, _, _)
\* activeTags.forEach(tag => has(tag) ? delete(tag) : add(tag))
toggleAll(set, tags, k) ==
    CHOOSE r \in
        {IF k > Len(tags) THEN st
         ELSE toggleAll(IF SetHas(st, tags[k]) THEN SetDelete(st, tags[k])
                        ELSE SetAdd(st, tags[k]),
                        tags, k + 1)
         : st \in {set}} : TRUE

\* new Set(currentTagsStr ? currentTagsStr.split(',') : [])
currentTags(currentTagsStr) ==
    addAll(<<>>, IF currentTagsStr # Null THEN split(currentTagsStr, ",") ELSE <<>>, 1)

\* the data-tags a click leaves on its target; the empty string removes the attribute
toggledTags(currentTagsStr, active) ==
    join(toggleAll(currentTags(currentTagsStr), active, 1), ",")

\* the data-tags applyTagsToElements leaves on one element
addedTags(currentTagsStr, tagsToAdd) ==
    join(addAll(currentTags(currentTagsStr), tagsToAdd, 1), ",")

\* applyTagsToElements(root, tagName, tagsToAdd): the document afterwards; the value
\* returned (modified) is whether it differs
applyTagsToElements(d, tagName, tagsToAdd) ==
    IF d.parserError THEN d
    ELSE [d EXCEPT
            !.images = [i \in 1..Len(d.images) |->
                          IF tagName = "image"
                          THEN [d.images[i] EXCEPT !.tags = addedTags(@, tagsToAdd)]
                          ELSE d.images[i]],
            !.texts  = [k \in 1..Len(d.texts) |->
                          IF tagName = "text"
                          THEN [d.texts[k] EXCEPT !.tags = addedTags(@, tagsToAdd)]
                          ELSE d.texts[k]]]

\* URL.createObjectURL(blob) for the blob kept under a filename
BlobUrl(filename) == <<"blob:">> \o filename

\* the keys of previewUrls: the pool's filenames and the current file's assets
PreviewNames(file, pool) ==
    DOMAIN pool \cup {file.assets[k].localFileName : k \in 1..Len(file.assets)}

\* tryResolve(src)
tryResolve(src, names) ==
    IF src = Null THEN Null
    ELSE IF src \in names THEN BlobUrl(src)
    ELSE IF getFilename(src) \in names THEN BlobUrl(getFilename(src))
    ELSE Null

\* the hydrate effect: the document put in the page, its images pointing at blobs
hydrate(content, file, pool) ==
    IF content.parserError THEN content
    ELSE [content EXCEPT
            !.images = [i \in 1..Len(content.images) |->
                LET img   == content.images[i]
                    xlink == IF img.hasXlink THEN img.xlink ELSE Null
                    names == PreviewNames(file, pool)
                    replacement == IF tryResolve(img.href, names) # Null
                                   THEN tryResolve(img.href, names)
                                   ELSE tryResolve(xlink, names)
                IN  IF replacement = Null THEN img
                    ELSE [img EXCEPT
                            !.href  = IF img.href # Null THEN replacement ELSE @,
                            !.xlink = IF xlink # Null THEN replacement ELSE @]]]

\* the blob address back to images/<filename>, when previewUrls has it
cleanHref(href, names) ==
    IF /\ href # Null
       /\ StartsWith(href, <<"blob:">>)
       /\ From(href, 2) \in names
    THEN <<"images", "/">> \o From(href, 2)
    ELSE href

\* getCleanSvgContent(): null while the page shows no svg element
getCleanSvgContent(d, file, pool) ==
    IF d = Null THEN Null
    ELSE IF d.parserError THEN Null
    ELSE [d EXCEPT
            !.images = [i \in 1..Len(d.images) |->
                [d.images[i] EXCEPT
                    !.href  = cleanHref(@, PreviewNames(file, pool)),
                    !.xlink = IF d.images[i].hasXlink
                              THEN cleanHref(@, PreviewNames(file, pool)) ELSE @]]]

\* updateFileContent(id, content)
updateFileContent(fs, id, content) ==
    [k \in 1..Len(fs) |->
        IF fs[k].id = id THEN [fs[k] EXCEPT !.processedContent = content] ELSE fs[k]]

\* updateMultipleFiles(updates): updates.find(u => u.id === f.id)
updateMultipleFiles(fs, updates) ==
    [k \in 1..Len(fs) |->
        LET hits == {u \in 1..Len(updates) : updates[u].id = fs[k].id}
        IN  IF hits = {} THEN fs[k]
            ELSE [fs[k] EXCEPT !.processedContent =
                     updates[CHOOSE u \in hits : \A v \in hits : u <= v].content]]

\* the effects that follow a render in which the current file or the index changed:
\* currentSvgContent follows the file when the file has content, isDirty is then
\* reset, and the page is hydrated again when the content or previewUrls changed
shown(file, pool, urlsChanged) ==
    LET content == IF file.processedContent # Null THEN file.processedContent
                   ELSE currentSvgContent
    IN  [content |-> content,
         dom     |-> IF content = Null THEN dom
                     ELSE IF content # currentSvgContent \/ urlsChanged
                     THEN hydrate(content, file, pool)
                     ELSE dom,
         reset   |-> file.processedContent # Null]

PageA == [EmptyDoc EXCEPT
            !.images = <<Image(<<"images", "/">> \o SharedPng), Tagged(UrlA, <<"note">>)>>,
            !.texts  = <<[tags |-> Null,
                          children |-> <<TextNode(<<"a">>), Tspan(<<"REDACT">>, << <<"a">> >>)>>]>>]

PageB == [EmptyDoc EXCEPT
            !.images = <<Tagged(LocalA, <<"note", ",", "note">>)>>,
            !.texts  = <<[tags |-> <<"redact", "-text", ",", "note">>,
                          children |-> <<TextNode(<<"a">>)>>]>>]

\* the collections the tagging tab is opened on
TagCollections ==
    { <<File(P1, PageA, COMPLETED, <<Asset(SharedPng, SharedPng, PoolBlob(SharedPng))>>)>>,
      <<File(P1, PageA, IDLE, <<>>), File(P2, PageB, COMPLETED, <<>>)>>,
      <<File(P1, PageB, IDLE, <<>>), File(P2, PageA, IDLE, <<>>)>>,
      <<File(P1, PageA, IDLE, <<>>), File(P2, Null, IDLE, <<>>)>> }

\* what is typed in the new-tag field
TagInputs == { <<"note">>, <<" ", "note", " ">>, <<" ">>, <<"a", ",", "b">> }

\* newTagInput.trim()
trim(str) ==
    LET ink == {i \in 1..Len(str) : str[i] \notin Whitespace}
    IN  IF ink = {} THEN <<>>
        ELSE SubSeq(str, CHOOSE i \in ink : \A j \in ink : i <= j,
                         CHOOSE i \in ink : \A j \in ink : i >= j)

\* the latest edit: what was done, to what, with which active tags, on which page
Edit(op, what, before) ==
    <<[op |-> op, what |-> what, active |-> activeTags, page |-> currentIndex,
       before |-> before, n |-> tagOps + 1]>>

otherVars == <<svgInput, doc, assets, errors, urlToFilenameMap, fontReplacements,
               totalItems, processedCount, progressLog, fetchLog, imgIdx, itemIdx,
               matchIdx, css, redactVars, zip, pdfVars, appVars>>

\* activeTab = 'tag': the editor mounts on the first file of the collection
openTaggingEditor ==
    /\ pc = "idle"
    /\ \E fs \in TagCollections, pool \in ZipPools :
         /\ files' = fs
         /\ preloadedAssets' = pool
         /\ currentSvgContent' = fs[1].processedContent
         /\ dom' = IF fs[1].processedContent = Null THEN Null
                   ELSE hydrate(fs[1].processedContent, fs[1], pool)
    /\ currentIndex' = 0
    /\ pc' = "tagging"
    /\ UNCHANGED <<activeTags, availableTags, isDirty, tagHist, tagOps, otherVars>>

\* handleCreateTag: onAddTag(name) and the name joins the active set
handleCreateTag ==
    /\ pc = "tagging"
    /\ tagOps < MaxTagOps
    /\ \E newTagInput \in TagInputs :
         /\ trim(newTagInput) # <<>>
         /\ availableTags' = SetAdd(availableTags, trim(newTagInput))
         /\ activeTags' = SetAdd(activeTags, trim(newTagInput))
    /\ tagOps' = tagOps + 1
    /\ UNCHANGED <<pc, files, preloadedAssets, currentIndex, currentSvgContent, dom,
                   isDirty, tagHist, otherVars>>

\* toggleActiveTag(tag), for a tag of the palette
toggleActiveTag ==
    /\ pc = "tagging"
    /\ tagOps < MaxTagOps
    /\ \E t \in 1..Len(availableTags) :
         activeTags' = IF SetHas(activeTags, availableTags[t])
                       THEN SetDelete(activeTags, availableTags[t])
                       ELSE SetAdd(activeTags, availableTags[t])
    /\ tagOps' = tagOps + 1
    /\ UNCHANGED <<pc, files, preloadedAssets, currentIndex, currentSvgContent, dom,
                   availableTags, isDirty, tagHist, otherVars>>

\* what can be clicked: an image, a text, or a tspan (which stands for its text)
Targets(d) ==
    IF d = Null THEN {}
    ELSE IF d.parserError THEN {}
    ELSE {<<"image", i>> : i \in 1..Len(d.images)}
         \cup {<<"text", k>> : k \in 1..Len(d.texts)}
         \cup {<<"tspan", k>> : k \in {k \in 1..Len(d.texts) :
                   \E j \in 1..Len(d.texts[k].children) :
                       d.texts[k].children[j].kind = "tspan"}}

\* target.closest('text') for a tspan
Resolved(target) == IF target[1] = "tspan" THEN <<"text", target[2]>> ELSE target

TagsAt(d, el) == IF el[1] = "image" THEN d.images[el[2]].tags ELSE d.texts[el[2]].tags

WithTags(d, el, tags) ==
    IF el[1] = "image" THEN [d EXCEPT !.images[el[2]].tags = tags]
    ELSE [d EXCEPT !.texts[el[2]].tags = tags]

\* handleSvgClick with a non-empty active set
handleSvgClick ==
    /\ pc = "tagging"
    /\ tagOps < MaxTagOps
    /\ activeTags # <<>>
    /\ \E target \in Targets(dom) :
         LET el == Resolved(target)
         IN  /\ dom' = WithTags(dom, el, toggledTags(TagsAt(dom, el), activeTags))
             /\ tagHist' = Edit("click", el, TagsAt(dom, el))
    /\ isDirty' = TRUE
    /\ tagOps' = tagOps + 1
    /\ UNCHANGED <<pc, files, preloadedAssets, currentIndex, currentSvgContent,
                   activeTags, availableTags, otherVars>>

Categories == {"image", "text"}

\* applyToPage(tagName)
applyToPage ==
    /\ pc = "tagging"
    /\ tagOps < MaxTagOps
    /\ activeTags # <<>>
    /\ dom # Null
    /\ \E tagName \in Categories :
         /\ dom' = applyTagsToElements(dom, tagName, activeTags)
         /\ tagHist' = Edit("applyToPage", <<tagName>>, Null)
    /\ isDirty' = (isDirty \/ dom' # dom)
    /\ tagOps' = tagOps + 1
    /\ UNCHANGED <<pc, files, preloadedAssets, currentIndex, currentSvgContent,
                   activeTags, availableTags, otherVars>>

RECURSIVE Flatten(_, _)
Flatten(seqs, k) == IF k > Len(seqs) THEN <<>> ELSE seqs[k] \o Flatten(seqs, k + 1)

\* the updates applyToBook hands to onUpdateMultipleFiles: the current page as the
\* editor shows it, always, and every other file with content that the tags change
bookUpdates(fs, idx, d, pool, tagName, tagsToAdd) ==
    LET currentFile == fs[idx + 1]
        currentPageContent == getCleanSvgContent(d, currentFile, pool)
        current == IF currentPageContent = Null THEN <<>>
                   ELSE <<[id |-> currentFile.id,
                           content |-> applyTagsToElements(currentPageContent, tagName,
                                                           tagsToAdd)]>>
        others == [k \in 1..Len(fs) |->
                      IF /\ fs[k].id # currentFile.id
                         /\ fs[k].processedContent # Null
                         /\ applyTagsToElements(fs[k].processedContent, tagName, tagsToAdd)
                               # fs[k].processedContent
                      THEN <<[id |-> fs[k].id,
                              content |-> applyTagsToElements(fs[k].processedContent,
                                                              tagName, tagsToAdd)]>>
                      ELSE <<>>]
    IN  current \o Flatten(others, 1)

\* applyToBook(tagName), confirmed
applyToBook ==
    /\ pc = "tagging"
    /\ tagOps < MaxTagOps
    /\ activeTags # <<>>
    /\ \E tagName \in Categories :
         LET updates == bookUpdates(files, currentIndex, dom, preloadedAssets, tagName,
                                    activeTags)
             fs      == IF updates = <<>> THEN files ELSE updateMultipleFiles(files, updates)
             fired   == \E u \in 1..Len(updates) : updates[u].id = files[currentIndex + 1].id
             next    == shown(fs[currentIndex + 1], preloadedAssets, FALSE)
         IN  /\ files' = fs
             /\ tagHist' = Edit("applyToBook", <<tagName>>, Null)
             /\ currentSvgContent' = IF fired THEN next.content ELSE currentSvgContent
             /\ dom' = IF fired THEN next.dom ELSE dom
             /\ isDirty' = (IF updates = <<>> THEN isDirty ELSE FALSE)
    /\ tagOps' = tagOps + 1
    /\ UNCHANGED <<pc, preloadedAssets, currentIndex, activeTags, availableTags, otherVars>>

\* el.removeAttribute('data-tags') on every element that has the attribute
withoutTags(d) ==
    IF d.parserError THEN d
    ELSE [d EXCEPT
            !.images = [i \in 1..Len(d.images) |-> [d.images[i] EXCEPT !.tags = Null]],
            !.texts  = [k \in 1..Len(d.texts) |->
                          [d.texts[k] EXCEPT
                              !.tags = Null,
                              !.children = [j \in 1..Len(d.texts[k].children) |->
                                  IF d.texts[k].children[j].kind = "tspan"
                                  THEN [d.texts[k].children[j] EXCEPT !.tags = Null]
                                  ELSE d.texts[k].children[j]]]]]

\* clearAllTags(), confirmed
clearAllTags ==
    /\ pc = "tagging"
    /\ tagOps < MaxTagOps
    /\ dom # Null
    /\ dom' = withoutTags(dom)
    /\ isDirty' = TRUE
    /\ tagHist' = Edit("clearAllTags", <<>>, Null)
    /\ tagOps' = tagOps + 1
    /\ UNCHANGED <<pc, files, preloadedAssets, currentIndex, currentSvgContent,
                   activeTags, availableTags, otherVars>>

\* handleSave(): onUpdateFile(currentFile.id, content) when the page has content
handleSave ==
    /\ pc = "tagging"
    /\ tagOps < MaxTagOps
    /\ LET content == getCleanSvgContent(dom, files[currentIndex + 1], preloadedAssets)
           fs      == updateFileContent(files, files[currentIndex + 1].id, content)
           next    == shown(fs[currentIndex + 1], preloadedAssets, FALSE)
       IN  /\ content # Null
           /\ files' = fs
           /\ currentSvgContent' = next.content
           /\ dom' = next.dom
    /\ isDirty' = FALSE
    /\ tagHist' = Edit("handleSave", <<>>, Null)
    /\ tagOps' = tagOps + 1
    /\ UNCHANGED <<pc, preloadedAssets, currentIndex, activeTags, availableTags, otherVars>>

\* handleNext() and handlePrev(): handleSave() when dirty, then the index moves when
\* there is a page that way; what the editor holds afterwards
turned(step) ==
    LET moved   == currentIndex + step \in 0..(Len(files) - 1)
        index   == IF moved THEN currentIndex + step ELSE currentIndex
        content == getCleanSvgContent(dom, files[currentIndex + 1], preloadedAssets)
        saves   == isDirty /\ content # Null
        fs      == IF saves
                   THEN updateFileContent(files, files[currentIndex + 1].id, content)
                   ELSE files
        next    == shown(fs[index + 1], preloadedAssets, moved)
    IN  [acts |-> moved \/ saves, files |-> fs, index |-> index,
         content |-> next.content, dom |-> next.dom,
         dirty |-> IF saves \/ next.reset THEN FALSE ELSE isDirty]

handleNext ==
    /\ pc = "tagging"
    /\ tagOps < MaxTagOps
    /\ turned(1).acts
    /\ files' = turned(1).files
    /\ currentIndex' = turned(1).index
    /\ currentSvgContent' = turned(1).content
    /\ dom' = turned(1).dom
    /\ isDirty' = turned(1).dirty
    /\ tagHist' = Edit("handleNext", <<>>, Null)
    /\ tagOps' = tagOps + 1
    /\ UNCHANGED <<pc, preloadedAssets, activeTags, availableTags, otherVars>>

handlePrev ==
    /\ pc = "tagging"
    /\ tagOps < MaxTagOps
    /\ turned(0 - 1).acts
    /\ files' = turned(0 - 1).files
    /\ currentIndex' = turned(0 - 1).index
    /\ currentSvgContent' = turned(0 - 1).content
    /\ dom' = turned(0 - 1).dom
    /\ isDirty' = turned(0 - 1).dirty
    /\ tagHist' = Edit("handlePrev", <<>>, Null)
    /\ tagOps' = tagOps + 1
    /\ UNCHANGED <<pc, preloadedAssets, activeTags, availableTags, otherVars>>

NextTag ==
    \/ openTaggingEditor \/ handleCreateTag \/ toggleActiveTag \/ handleSvgClick
    \/ applyToPage \/ applyToBook \/ clearAllTags \/ handleSave
    \/ handleNext \/ handlePrev

SpecTag == Init /\ [][NextTag]_vars


-----------------------------------------------------------------------------
(* Claims about the tagging editor *)

\* the tag set of an element: the tags its annotation lists, none without one
TagSetOf(attr) == IF attr = Null THEN {} ELSE TagsOf(attr)

ActiveSet == {activeTags[i] : i \in 1..Len(activeTags)}

SymDiff(S, T) == (S \ T) \cup (T \ S)

\* the step is a click on an element, with a non-empty active set
ClickStep == tagHist' # tagHist /\ tagHist'[1].op = "click"

\* the edit just before this step was the same edit: same operation, same target,
\* same active set, same page, and nothing was done in between
RepeatsLastEdit ==
    /\ tagHist # <<>>
    /\ tagHist[1].op = tagHist'[1].op
    /\ tagHist[1].what = tagHist'[1].what
    /\ tagHist[1].active = tagHist'[1].active
    /\ tagHist[1].page = tagHist'[1].page
    /\ tagHist[1].n = tagOps

ToggleIsInvolution ==
    ClickStep =>
        LET el  == tagHist'[1].what
            old == TagSetOf(TagsAt(dom, el))
            new == TagSetOf(TagsAt(dom', el))
        IN  /\ new = SymDiff(old, ActiveSet)
            /\ RepeatsLastEdit =>
                  /\ new = TagSetOf(tagHist[1].before)
                  /\ tagHist[1].before = Null => TagsAt(dom', el) = Null

\* C12: a click with a non-empty active set A leaves on the element the symmetric
\* difference of its tag set and A; clicking the same element again with the same
\* A restores the tag set it had, and "no annotation" when it had none
C12_ToggleIsSymmetricDifference == [][ToggleIsInvolution]_vars

ElementsOf(d) ==
    IF d = Null THEN {}
    ELSE IF d.parserError THEN {}
    ELSE {<<"image", i>> : i \in 1..Len(d.images)}
         \cup {<<"text", k>> : k \in 1..Len(d.texts)}

\* from `before` to `after`, every element of the category gained exactly the
\* active tags and every other element kept its annotation
UnionOn(before, after, category) ==
    \A el \in ElementsOf(before) :
        IF el[1] = category
        THEN TagSetOf(TagsAt(after, el)) = TagSetOf(TagsAt(before, el)) \cup ActiveSet
        ELSE TagsAt(after, el) = TagsAt(before, el)

SameTagSets(before, after) ==
    \A el \in ElementsOf(before) :
        TagSetOf(TagsAt(after, el)) = TagSetOf(TagsAt(before, el))

\* the step is applyToPage or applyToBook
BulkStep == tagHist' # tagHist /\ tagHist'[1].op \in {"applyToPage", "applyToBook"}

\* what the page the editor shows was before the step, and every other file
BookBefore(k) == IF k = currentIndex + 1 THEN dom ELSE files[k].processedContent

BulkApplyIsUnion ==
    BulkStep =>
        LET category == tagHist'[1].what[1]
        IN  /\ tagHist'[1].op = "applyToPage" =>
                  /\ UnionOn(dom, dom', category)
                  /\ files' = files
                  /\ RepeatsLastEdit => SameTagSets(dom, dom')
            /\ tagHist'[1].op = "applyToBook" =>
                  /\ \A k \in 1..Len(files) :
                        UnionOn(BookBefore(k), files'[k].processedContent, category)
                  /\ RepeatsLastEdit =>
                        \A k \in 1..Len(files) :
                            SameTagSets(files[k].processedContent,
                                        files'[k].processedContent)

\* C19: applyToPage and applyToBook with active set A and category c leave on
\* every element of category c in scope its old tags and those of A, remove no
\* tag, leave the elements of the other category as they were, and applied a
\* second time change nothing
C19_BulkApplyIsUnion == [][BulkApplyIsUnion]_vars


-----------------------------------------------------------------------------
(* Dropzone (src/unnamed/part_003), the tabs of App and App.handleAddTag *)

\* what one drop holds
Drops ==
    {[newFiles |-> f, newAssets |-> a] :
        f \in SeqsUpTo(Uploads, 1), a \in AssetUploads} \ {[newFiles |-> <<>>, newAssets |-> {}]}

\* Dropzone.handleDrop up to its first await: the drop is refused while
\* isProcessing; the entries are then read, and the rest of the handler runs with
\* the onFilesAdded of this render, which sees the pool of this render
handleDrop ==
    /\ pc \in {"idle", "loaded"}
    /\ activeTab = "upload" /\ ~isProcessing
    /\ dropping = <<>>
    /\ nextId <= MaxFiles
    /\ \E d \in Drops :
         dropping' = <<[newFiles |-> d.newFiles, newAssets |-> d.newAssets,
                        pool |-> preloadedAssets]>>
    /\ isProcessing' = TRUE
    /\ UNCHANGED <<pc, activeTab, inflight, nextId, bundleVars, redactVars, zipVars, pdfVars,
                   tagVars>>

\* Dropzone.handleDrop after the entries were read: onFilesAdded(svgs, assets),
\* and finally setIsProcessing(false)
handleDropRead ==
    /\ dropping # <<>>
    /\ \E d \in {dropping[1]} :
         /\ preloadedAssets' = updatedAssets(d.pool, d.newAssets)
         /\ files' = files \o newProcessedFiles(d.newFiles, nextId)
         /\ nextId' = nextId + Len(d.newFiles)
    /\ dropping' = <<>>
    /\ isProcessing' = FALSE
    /\ pc' = "loaded"
    /\ UNCHANGED <<svgInput, doc, assets, errors, urlToFilenameMap, fontReplacements,
                   totalItems, processedCount, progressLog, fetchLog, imgIdx, itemIdx,
                   matchIdx, css>>
    /\ UNCHANGED <<zip, inflight, activeTab, redactVars, pdfVars, tagVars>>

\* setActiveTab(tab): the Reorder and Tag buttons are disabled while there is no
\* file; the Dropzone is rendered on the upload tab only, so that coming back to
\* it mounts a new Dropzone, whose isProcessing is false
setActiveTab ==
    /\ pc \in {"idle", "loaded"}
    /\ \E tab \in {"upload", "reorder", "tag"} \ {activeTab} :
         /\ tab # "upload" => Len(files) > 0
         /\ activeTab' = tab
    /\ isProcessing' = FALSE
    /\ UNCHANGED <<pc, dropping, inflight, nextId, bundleVars, redactVars, zipVars, pdfVars,
                   tagVars>>

\* handleAddTag(tag), called by TaggingEditor.handleCreateTag with the trimmed input
handleAddTag ==
    /\ pc \in {"idle", "loaded"}
    /\ activeTab = "tag"
    /\ \E newTagInput \in TagInputs :
         /\ trim(newTagInput) # <<>>
         /\ availableTags' = SetAdd(availableTags, trim(newTagInput))
    /\ UNCHANGED <<pc, bundleVars, redactVars, zipVars, pdfVars, appVars, currentIndex,
                   currentSvgContent, dom, activeTags, isDirty, tagHist, tagOps>>

NextIntake ==
    handleFilesAdded \/ handleDrop \/ handleDropRead \/ setActiveTab \/ handleAddTag

SpecIntake == Init /\ [][NextIntake]_vars

\* the names of the pool
PoolNames(pool) == DOMAIN pool

\* what a step may do to the pool and to the palette: keep every name they hold
GrowOnly ==
    /\ PoolNames(preloadedAssets) \subseteq PoolNames(preloadedAssets')
    /\ \A i \in 1..Len(availableTags) : SetHas(availableTags', availableTags[i])
    /\ \A i, j \in 1..Len(availableTags') :
          availableTags'[i] = availableTags'[j] => i = j

\* C22: under any sequence and interleaving of intake and add-tag operations a
\* filename once in the pool stays in the pool, a tag name once in the palette
\* stays in it, and the palette never holds the same name twice
C22_PoolAndPaletteGrowOnly == [][GrowOnly]_vars


-----------------------------------------------------------------------------
(* App: resolutions in flight while the tagging tab saves edits *)

\* the tags the editor has active when it applies them to a page
EditTags == << <<"note">> >>

\* what TaggingEditor.handleSave hands to onUpdateFile for a page after
\* applyToPage(tagName): the page as the editor hydrated it from the document's
\* stored markup, with the tags applied, and cleaned
editedContent(file, pool, tagName) ==
    CHOOSE out \in
      { getCleanSvgContent(applyTagsToElements(shownPage, tagName, EditTags), file, pool) :
          shownPage \in {hydrate(file.processedContent, file, pool)} } : TRUE

\* onUpdateFile(currentFile.id, content): App.updateFileContent
onUpdateFile ==
    /\ pc = "loaded"
    /\ \E k \in 1..Len(files), tagName \in Categories :
         /\ files[k].processedContent # Null
         /\ ~files[k].processedContent.parserError
         /\ \E content \in {editedContent(files[k], preloadedAssets, tagName)} :
              /\ content # files[k].processedContent
              /\ files' = updateFileContent(files, files[k].id, content)
    /\ UNCHANGED <<pc, zip, bundleVars, redactVars, pdfVars, appVars, tagVars>>

NextResolve ==
    \/ handleFilesAdded \/ bundleFile \/ onProgress \/ bundleFileDone \/ removeFile
    \/ onUpdateFile

SpecResolve == Init /\ [][NextResolve]_vars

\* a step of the resolution of document id: a progress report or its last update
ResolutionOf(id) ==
    /\ onProgress \/ bundleFileDone
    /\ \E r \in inflight \ inflight' : r.id = id

NextSettle == handleFilesAdded \/ bundleFile \/ onProgress \/ bundleFileDone \/ removeFile

\* every fetch returns or fails, and the continuation of an await is run: a
\* resolution that can take a step takes it
SpecSettle ==
    Init /\ [][NextSettle]_vars /\ \A id \in 1..MaxFiles : WF_vars(ResolutionOf(id))

\* the data-tags of the elements of a document, in document order
TagAttrsOf(d) ==
    IF d = Null THEN <<>>
    ELSE IF d.parserError THEN <<>>
    ELSE [i \in 1..Len(d.images) |-> d.images[i].tags]
         \o [k \in 1..Len(d.texts) |-> d.texts[k].tags]

\* the step is the completion update of the resolution of document id
CompletesIn(id) ==
    /\ id \in IdsOf(files) \cap IdsOf(files')
    /\ FileOf(files, id).status = PROCESSING
    /\ FileOf(files', id).status = COMPLETED

\* the completion of a resolution leaves the tags of the document as they are
\* stored when it completes
CompletionKeepsTags ==
    \A id \in 1..MaxFiles :
        CompletesIn(id) =>
            TagAttrsOf(FileOf(files', id).processedContent)
                = TagAttrsOf(FileOf(files, id).processedContent)

\* C29: a tag edit saved to a document while its resolution is in flight is not
\* lost: after the resolution completes, the stored markup still carries the tags
\* of that edit
C29_SavedEditSurvivesResolution == [][CompletionKeepsTags]_vars

Processing(id) == id \in IdsOf(files) /\ FileOf(files, id).status = PROCESSING

Finished(id) ==
    \/ id \notin IdsOf(files)
    \/ FileOf(files, id).status \in {COMPLETED, ERROR}

\* C27: every started resolution terminates: a document that enters PROCESSING
\* eventually is COMPLETED or ERROR (or was removed meanwhile), whatever the
\* number of its references and whichever of its fetches fail
C27_ResolutionTerminates == \A id \in 1..MaxFiles : Processing(id) ~> Finished(id)

\* two resolutions have ended, one with a failed fetch recorded and one in ERROR
C27_Witness ==
    /\ inflight = {}
    /\ \E k \in 1..Len(files) :
          /\ files[k].status = COMPLETED /\ files[k].errors # <<>> /\ files[k].progress = 100
    /\ \E k \in 1..Len(files) : files[k].status = ERROR

-----------------------------------------------------------------------------
(* App: the archive of a document the resolver has returned *)

\* bundleFile's update after `await svgProcessor.bundleResources(...)`: the result
\* of the call that has just returned is merged into the document's entry
bundleFileReturned ==
    /\ pc = "bundled"
    /\ files' = updateFileStatus(<<File(P1, svgInput, PROCESSING, <<>>)>>, P1,
                                 completedUpdates([content |-> doc, assets |-> assets,
                                                   errors |-> errors]))
    /\ pc' = "loaded"
    /\ UNCHANGED <<zip, bundleVars, redactVars, pdfVars, appVars, tagVars>>

NextArchive ==
    \/ CallBundleResources
    \/ ProcessImage
    \/ ProcessFontMatch
    \/ ReturnBundle
    \/ bundleFileReturned
    \/ downloadZip

SpecArchive == Init /\ [][NextArchive]_vars

\* the local names the resolver gave the assets of a document
LocalNamesOf(f) == {f.assets[j].localFileName : j \in 1..Len(f.assets)}

ImageRefsResolve(f, markup) ==
    \A i \in 1..Len(markup.images) :
        \A n \in LocalNamesOf(f) :
            ImageHref(markup.images[i]) = <<"images", "/">> \o n
                => ZipEntries(<<"images", "/">> \o n) # {}

FontRefsResolve(f, markup) ==
    \A k \in 1..Len(markup.styles) :
        \A n \in LocalNamesOf(f) :
            Includes(markup.styles[k], <<"fonts", "/">> \o n)
                => ZipEntries(<<"fonts", "/">> \o n) # {}

\* C28: in the archive, every images/<name> reference the resolver wrote into an
\* exported document's markup names an entry stored under images/, and every
\* fonts/<name> reference names an entry stored under fonts/, also when the name
\* synthesized for a fetched font has no font extension
C28_ArchiveReferencesResolve ==
    pc = "zipped" =>
        \A k \in KeptFiles :
            LET f == getValidFiles(files)[k]
            IN  \A i \in ZipEntries(f.name) :
                    /\ ImageRefsResolve(f, zip[i].data)
                    /\ FontRefsResolve(f, zip[i].data)

=============================================================================
